---- MODULE Spec2Model ----
(***************************************************************************)
(* Spawn: turns a Linux game archive (or a pre-extracted directory) into a *)
(* runnable, shortcut-launchable installation.                             *)
(*                                                                         *)
(* The model follows the Rust sources: src/src/main.rs (the monolithic     *)
(* revision, whose main() drives the pipeline) and the modular revision    *)
(* src/src/{utils,installation,discovery}.rs.                              *)
(*                                                                         *)
(* Strings are sequences of one-character strings, paths are sequences of  *)
(* file names (the components below the filesystem root), and the          *)
(* filesystem is a function from the existing paths to their entries.      *)
(***************************************************************************)
EXTENDS Integers, Sequences, FiniteSets, TLC

VARIABLES
    pc,          \* position of the process in main() / in the function under test
    revision,    \* "main": src/src/main.rs; "modular": utils/installation/discovery.rs
    dry_run,     \* args.dry_run
    input,       \* args.path, a path (sequence of names, relative to the cwd "/")
    fs,          \* the filesystem: [existing path -> entry]
    fs0,         \* history: the filesystem when the process started
    matches,     \* resolve_fuzzy_path: the matches, in listing order
    resolved,    \* resolve_fuzzy_path: <<path>> once it returned Ok, else <<>>
    err,         \* the error the process terminated with, "" when none
    prompts,     \* the lines read from stdin so far, per prompt
    scans,       \* number of read_dir calls made on the search directory
    input_path,  \* main: <<the canonical input path>> once resolved, else <<>>
    target_parent, \* main: <<the install parent>> once chosen, else <<>>
    target_dir,  \* extract_archive: <<install_dir.join(dir_name)>> once derived, else <<>>
    game_dir,    \* main: <<the installation directory>> once known, else <<>>
    walk,        \* discover_executable: the entries WalkDir yielded, in order
    executable,  \* main: <<the discovered executable>>, else <<>>
    fs_in,       \* history: the filesystem when resolve_fuzzy_path returned to main
    tools,       \* history: the external tools run so far, with their exit status
    created_files, \* generate_desktop_entry: the paths it returned
    icon,        \* main: <<the discovered icon>>, <<>> for None
    candidates,  \* discover_executable: the Tier-2 candidates it collected
    sniffed,     \* is_elf_binary: <<the value it returned>>, <<>> before the call
    calls,       \* history: the generate_desktop_entry calls made so far
    runs         \* history: the outcomes of the earlier extract_archive runs

vars == <<pc, revision, dry_run, input, fs, fs0, matches, resolved, err, prompts, scans,
          input_path, target_parent, target_dir, game_dir, walk, executable,
          fs_in, tools, created_files, icon, candidates, sniffed, calls, runs>>

\* the variables of the later stages of main()
run_vars == <<fs_in, tools, created_files>>

\* the variables of the functions run on their own
aux_vars == <<sniffed, calls, runs>>

\* the variables of resolve_fuzzy_path
resolve_vars == <<matches, resolved, prompts, scans>>

\* the variables of the discovery stage
discover_vars == <<game_dir, walk, executable>>

\* the variables of main() and of extract_archive
install_vars == <<input_path, target_parent, target_dir>>

----------------------------------------------------------------------------
(* Bounds of the model                                                     *)

\* at most this many entries are placed in the search directory
MaxChildren == 3

\* archive file names are built from at most this many pieces
MaxPieces == 3

----------------------------------------------------------------------------
(* Strings: str::to_lowercase, str::trim, str::ends_with, str::contains,   *)
(* str::parse::<usize>                                                     *)

Upper == <<"A","B","C","D","E","F","G","H","I","J","K","L","M",
           "N","O","P","Q","R","S","T","U","V","W","X","Y","Z">>
Lower == <<"a","b","c","d","e","f","g","h","i","j","k","l","m",
           "n","o","p","q","r","s","t","u","v","w","x","y","z">>
Digits == <<"0","1","2","3","4","5","6","7","8","9">>
Whitespace == {" ", "\n", "\t", "\r"}

ToLowerChar(c) ==
    IF \E i \in 1..Len(Upper) : Upper[i] = c
    THEN Lower[CHOOSE i \in 1..Len(Upper) : Upper[i] = c]
    ELSE c

\* str::to_lowercase (ASCII letters)
to_lowercase(s) == [i \in 1..Len(s) |-> ToLowerChar(s[i])]

\* str::ends_with
ends_with(s, suf) ==
    /\ Len(suf) <= Len(s)
    /\ \A i \in 1..Len(suf) : s[Len(s) - Len(suf) + i] = suf[i]

\* str::contains (substring)
contains(s, sub) ==
    \E k \in 0..(Len(s) - Len(sub)) : \A i \in 1..Len(sub) : s[k + i] = sub[i]

\* str::trim: drops leading and trailing whitespace
trim(s) ==
    LET keep == {i \in 1..Len(s) : s[i] \notin Whitespace}
    IN  IF keep = {} THEN <<>>
        ELSE LET lo == CHOOSE i \in keep : \A j \in keep : i <= j
                 hi == CHOOSE i \in keep : \A j \in keep : j <= i
             IN  SubSeq(s, lo, hi)

DigitVal(c) == (CHOOSE i \in 1..10 : Digits[i] = c) - 1
IsDigit(c) == \E i \in 1..10 : Digits[i] = c

\* values above this are all "greater than any list length"; the accumulation
\* saturates there so that it stays inside TLC's integers
ParseCap == 1000000

RECURSIVE DigitsValue(_)
DigitsValue(s) ==
    IF s = <<>> THEN 0
    ELSE LET v == DigitsValue(SubSeq(s, 1, Len(s) - 1)) * 10 + DigitVal(s[Len(s)])
         IN  IF v > ParseCap THEN ParseCap ELSE v

\* str::parse::<usize>: an optional "+", then one or more ASCII digits; anything
\* else (empty, a sign alone, "-", blanks, letters) is an Err
parse_usize(s) ==
    LET body == IF s # <<>> /\ s[1] = "+" THEN Tail(s) ELSE s
    IN  IF body # <<>> /\ \A i \in 1..Len(body) : IsDigit(body[i])
        THEN [ok |-> TRUE, val |-> DigitsValue(body)]
        ELSE [ok |-> FALSE, val |-> 0]

----------------------------------------------------------------------------
(* Paths and the filesystem                                                *)

\* Path::file_name of a non-empty path
file_name(p) == p[Len(p)]
\* Path::parent
parent(p) == SubSeq(p, 1, Len(p) - 1)
\* Path::join with one more component
join(p, n) == Append(p, n)

IsPrefix(p, q) == Len(p) <= Len(q) /\ SubSeq(q, 1, Len(p)) = p

\* Path::exists, Path::is_file, Path::is_dir
exists(f, p) == p \in DOMAIN f
is_file(f, p) == p \in DOMAIN f /\ f[p].kind = "file"
is_dir(f, p) == p \in DOMAIN f /\ f[p].kind = "dir"

\* the paths fs::read_dir(d) yields, when it succeeds
Children(f, d) == {p \in DOMAIN f : Len(p) = Len(d) + 1 /\ IsPrefix(d, p)}

\* all the orders in which the elements of a finite set can be listed
RECURSIVE Orders(_)
Orders(S) ==
    IF S = {} THEN {<<>>}
    ELSE UNION {{<<x>> \o t : t \in Orders(S \ {x})} : x \in S}

\* fs::read_dir(d): Err (modelled as "no listing") unless d is a directory; the
\* order of the entries is whatever the filesystem gives
read_dir_ok(f, d) == is_dir(f, d)
read_dir(f, d) == Orders(Children(f, d))

\* Path::to_string_lossy of an absolute path: "/" before every component
RECURSIVE to_string_lossy(_)
to_string_lossy(p) ==
    IF p = <<>> THEN <<>>
    ELSE to_string_lossy(parent(p)) \o <<"/">> \o file_name(p)

\* the text of args.path as typed: the components joined by "/"
RECURSIVE display(_)
display(p) ==
    IF p = <<>> THEN <<>>
    ELSE IF Len(p) = 1 THEN p[1]
    ELSE display(parent(p)) \o <<"/">> \o file_name(p)

\* an entry: its kind, the first bytes of a file (magic), whether the execute
\* bits are set (exec), a file's text (content), and whether the process may
\* read it (readable) and write it, or create entries in it (writable)
FileEntry == [kind |-> "file", magic |-> <<>>, exec |-> FALSE, content |-> <<>>,
              readable |-> TRUE, writable |-> TRUE]
ElfEntry  == [kind |-> "file", magic |-> <<127, 69, 76, 70, 2>>, exec |-> FALSE, content |-> <<>>,
              readable |-> TRUE, writable |-> TRUE]
PngEntry  == [kind |-> "file", magic |-> <<137, 80, 78, 71, 13>>, exec |-> FALSE, content |-> <<>>,
              readable |-> TRUE, writable |-> TRUE]
DirEntry  == [kind |-> "dir", magic |-> <<>>, exec |-> TRUE, content |-> <<>>,
              readable |-> TRUE, writable |-> TRUE]

\* a filesystem from a set of <<path, entry>> pairs
MkFs(pairs) ==
    [p \in {pr[1] : pr \in pairs} |-> (CHOOSE pr \in pairs : pr[1] = p)[2]]

----------------------------------------------------------------------------
(* File names used by the model's filesystems                              *)

n_dl       == <<"d","l">>                          \* config.search_dir
n_g        == <<"g">>
n_ga       == <<"g","a">>
n_Ga_zip   == <<"G","a",".","z","i","p">>
n_ga_tmp   == <<"g","a",".","t","m","p">>
n_ga_TMP   == <<"g","a",".","T","M","P">>
n_ga_part  == <<"g","a",".","p","a","r","t">>
n_ga_aria2 == <<"g","a",".","a","r","i","a","2">>
n_b        == <<"b">>

\* config.search_dir
SearchDir == <<n_dl>>

----------------------------------------------------------------------------
(* Path Resolver: resolve_fuzzy_path (utils.rs:33-88, main.rs:398-454)     *)

\* the name filter of the scan loop: the lowercased name of an entry
entry_name(p) == to_lowercase(file_name(p))

\* utils.rs:46 with the suffixes compared to the name as spelt on disk
is_temporary_mut(p) ==
    \/ ends_with(file_name(p), <<".","a","r","i","a","2">>)
    \/ ends_with(file_name(p), <<".","p","a","r","t">>)
    \/ ends_with(file_name(p), <<".","t","m","p">>)

\* utils.rs:46: in-progress downloads are skipped (tested on the lowercased name)
is_temporary(p) ==
    \/ ends_with(entry_name(p), <<".","a","r","i","a","2">>)
    \/ ends_with(entry_name(p), <<".","p","a","r","t">>)
    \/ ends_with(entry_name(p), <<".","t","m","p">>)

\* utils.rs:38: input.to_string_lossy().to_lowercase()
input_str(inp) == to_lowercase(display(inp))

\* utils.rs:50: the entry is pushed onto matches
is_match(inp, p) == ~is_temporary(p) /\ contains(entry_name(p), input_str(inp))

\* utils.rs:40-54 without the substring test
scan_matches_mut(inp, listing) == SelectSeq(listing, LAMBDA p : ~is_temporary(p))

\* utils.rs:40-54: the matches of one listing, in listing order
scan_matches(inp, listing) == SelectSeq(listing, LAMBDA p : is_match(inp, p))

\* utils.rs:34 testing the input below the search directory instead
input_exists_mut(f, inp) == exists(f, SearchDir \o inp)

\* utils.rs:34: input.exists()
input_exists(f, inp) == exists(f, inp)

\* utils.rs:34-36: the identity short-circuit
ResolveExisting ==
    /\ pc = "resolve"
    /\ input_exists(fs, input)
    /\ resolved' = <<input>>
    /\ pc' = "resolved"
    /\ UNCHANGED <<revision, dry_run, input, fs, fs0, matches, err, prompts, scans>>
    /\ UNCHANGED <<install_vars, discover_vars, run_vars>>
    /\ UNCHANGED <<icon, candidates, aux_vars>>

\* utils.rs:38-62 (+ 63-68: the list is printed and the process blocks on stdin)
ResolveScan ==
    /\ pc = "resolve"
    /\ ~input_exists(fs, input)
    /\ \E listing \in (IF read_dir_ok(fs, SearchDir) THEN read_dir(fs, SearchDir) ELSE {<<>>}) :
         LET m == scan_matches(input, listing)
         IN  /\ matches' = m
             /\ scans' = scans + 1
             /\ CASE Len(m) = 0 -> /\ err' = "NotFound"
                                   /\ pc' = "failed"
                                   /\ resolved' = resolved
                  [] Len(m) = 1 -> /\ resolved' = <<m[1]>>
                                   /\ pc' = "resolved"
                                   /\ err' = err
                  [] OTHER      -> /\ pc' = "resolve_prompt"
                                   /\ UNCHANGED <<resolved, err>>
    /\ UNCHANGED <<revision, dry_run, input, fs, fs0, prompts>>
    /\ UNCHANGED <<install_vars, discover_vars, run_vars>>
    /\ UNCHANGED <<icon, candidates, aux_vars>>

\* utils.rs:79: index == 0 || index > matches.len()
out_of_range(m, index) == index = 0 \/ index > Len(m)

\* utils.rs:83: matches.remove(index - 1), the index-th listed match
selected_mut(m, index) == m[IF index < Len(m) THEN index + 1 ELSE 1]
selected(m, index) == m[index]

\* the lines the operator may type at the disambiguation prompt
ChoiceLines ==
    { <<>>, <<"\n">>, <<" ","\n">>, <<"1","\n">>, <<"2","\n">>, <<" ","2"," ","\n">>,
      <<"3","\n">>, <<"4","\n">>, <<"0","\n">>, <<"x","\n">>, <<"-","1","\n">>,
      <<"+","1","\n">>, <<"1","0","\n">>, <<"0","2","\n">>, <<"1"," ","2","\n">> }

\* utils.rs:70-86: one line is read and decides the outcome
ResolveChoice ==
    /\ pc = "resolve_prompt"
    /\ \E line \in ChoiceLines :
         LET choice == trim(line)
             index  == parse_usize(choice)
         IN  /\ prompts' = [prompts EXCEPT !.choice = Append(@, line)]
             /\ IF choice = <<>>
                THEN /\ err' = "Cancelled"
                     /\ pc' = "failed"
                     /\ resolved' = resolved
                ELSE IF ~index.ok
                THEN /\ err' = "InvalidSelection"
                     /\ pc' = "failed"
                     /\ resolved' = resolved
                ELSE IF out_of_range(matches, index.val)
                THEN /\ err' = "SelectionOutOfRange"
                     /\ pc' = "failed"
                     /\ resolved' = resolved
                ELSE /\ resolved' = <<selected(matches, index.val)>>
                     /\ pc' = "resolved"
                     /\ err' = err
    /\ UNCHANGED <<revision, dry_run, input, fs, fs0, matches, scans>>
    /\ UNCHANGED <<install_vars, discover_vars, run_vars>>
    /\ UNCHANGED <<icon, candidates, aux_vars>>

----------------------------------------------------------------------------
(* SpecResolve: resolve_fuzzy_path on its own, over bounded inputs          *)

\* what the search directory may hold: files, a temporary in each spelling,
\* and a directory b with an entry ga below the first level
ResolvePool ==
    { <<<<n_dl, n_ga>>, DirEntry>>, <<<<n_dl, n_Ga_zip>>, FileEntry>>,
      <<<<n_dl, n_ga_tmp>>, FileEntry>>, <<<<n_dl, n_ga_TMP>>, FileEntry>>,
      <<<<n_dl, n_ga_part>>, FileEntry>>, <<<<n_dl, n_ga_aria2>>, FileEntry>>,
      <<<<n_dl, n_b>>, DirEntry>> }

\* the search directory itself: a directory, a file (read_dir fails), or absent
ResolveRoots == { {<<SearchDir, DirEntry>>}, {<<SearchDir, FileEntry>>}, {} }

\* entries outside the search directory: /g and /dl/b/ga
ResolveExtras == { {}, {<<<<n_g>>, FileEntry>>}, {<<<<n_dl, n_b, n_ga>>, FileEntry>>} }

ResolveFilesystems ==
    { MkFs(r \cup c \cup x) :
        r \in ResolveRoots,
        c \in {S \in SUBSET ResolvePool : Cardinality(S) <= MaxChildren},
        x \in ResolveExtras }

ResolveInputs ==
    { <<n_g>>, <<<<"G","A">>>>, <<<<"z">>>>, <<<<"t","m","p">>>>, <<<<>>>>,
      <<n_dl, n_ga>>, <<n_dl, n_b, n_ga>> }

NoPrompts == [choice |-> <<>>, overwrite |-> <<>>, location |-> <<>>]

WellFormed(f) ==
    \A p \in DOMAIN f : Len(p) > 1 => is_dir(f, parent(p))

InitResolve ==
    /\ pc = "resolve"
    /\ revision \in {"main", "modular"}
    /\ dry_run = FALSE
    /\ input \in ResolveInputs
    /\ fs \in {f \in ResolveFilesystems : WellFormed(f)}
    /\ fs0 = fs
    /\ matches = <<>>
    /\ resolved = <<>>
    /\ err = ""
    /\ prompts = NoPrompts
    /\ scans = 0
    /\ input_path = <<>> /\ target_parent = <<>> /\ target_dir = <<>>
    /\ game_dir = <<>> /\ walk = <<>> /\ executable = <<>>
    /\ fs_in = fs /\ tools = <<>> /\ created_files = <<>>
    /\ icon = <<>> /\ candidates = <<>> /\ sniffed = <<>> /\ calls = <<>> /\ runs = <<>>

NextResolve == ResolveExisting \/ ResolveScan \/ ResolveChoice

SpecResolve == InitResolve /\ [][NextResolve]_vars

----------------------------------------------------------------------------
(* Properties of the Path Resolver                                         *)

\* a child of the search root carries one of the download suffixes, the
\* suffix being compared without regard to letter case
Excluded(p) ==
    \E suf \in {<<".","a","r","i","a","2">>, <<".","p","a","r","t">>, <<".","t","m","p">>} :
        ends_with(to_lowercase(file_name(p)), suf)

\* the same, the suffix being compared as spelt
ExcludedAsSpelt(p) ==
    \E suf \in {<<".","a","r","i","a","2">>, <<".","p","a","r","t">>, <<".","t","m","p">>} :
        ends_with(file_name(p), suf)

NameMatches(p) == contains(to_lowercase(file_name(p)), to_lowercase(display(input)))

\* the immediate children of the search root that match the input
Matching == {p \in Children(fs0, SearchDir) : ~Excluded(p) /\ NameMatches(p)}
MatchingAsSpelt == {p \in Children(fs0, SearchDir) : ~ExcludedAsSpelt(p) /\ NameMatches(p)}

Returned == pc = "resolved"
Failed == pc = "failed"
Terminated == Returned \/ Failed

\* the answer typed at the disambiguation prompt, trimmed
Answer == trim(prompts.choice[1])
\* the answer is a number: digits, with an optional leading plus sign
AnswerIsNumber ==
    LET d == IF Answer # <<>> /\ Answer[1] = "+" THEN Tail(Answer) ELSE Answer
    IN  d # <<>> /\ \A i \in 1..Len(d) : d[i] \in {"0","1","2","3","4","5","6","7","8","9"}
AnswerNumber ==
    LET d == IF Answer[1] = "+" THEN Tail(Answer) ELSE Answer
    IN  DigitsValue(d)

\* C6: when the input does not exist and two or more non-excluded children of
\* the search root match, resolve reads exactly one line and then terminates:
\* an empty line fails with Cancelled, a non-numeric entry, 0 or a number above
\* the number of matches fails with InvalidSelection (the code words the range
\* failure "Selection out of range"), and k in 1..n returns the k-th listed
\* match; never is a second line read.
C6_SingleChoice ==
    /\ Len(prompts.choice) <= 1
    /\ (~exists(fs0, input) /\ Cardinality(Matching) >= 2) =>
          /\ pc \in {"resolve", "resolve_prompt", "resolved", "failed"}
          /\ pc = "resolve_prompt" => prompts.choice = <<>>
          /\ { matches[i] : i \in 1..Len(matches) } = IF pc = "resolve" THEN {} ELSE Matching
          /\ Terminated =>
                /\ Len(prompts.choice) = 1
                /\ Answer = <<>> => Failed /\ err = "Cancelled"
                /\ (Answer # <<>> /\ ~AnswerIsNumber) => Failed /\ err = "InvalidSelection"
                /\ (AnswerIsNumber /\ (AnswerNumber = 0 \/ AnswerNumber > Len(matches))) =>
                      Failed /\ err \in {"InvalidSelection", "SelectionOutOfRange"}
                /\ (AnswerIsNumber /\ AnswerNumber \in 1..Len(matches)) =>
                      Returned /\ resolved = <<matches[AnswerNumber]>> /\ err = ""

\* C6 witness: three matches were listed and the answer 2 returned the second
C6_Witness ==
    /\ ~exists(fs0, input) /\ Cardinality(Matching) = 3
    /\ Returned /\ Answer = <<"2">> /\ resolved = <<matches[2]>>

\* C7: an input that exists is returned unchanged, whatever the search root
\* holds; no directory is scanned and no line is read.
C7_Identity ==
    (exists(fs0, input) /\ pc # "resolve") =>
        /\ Returned /\ resolved = <<input>> /\ err = ""
        /\ scans = 0 /\ prompts = NoPrompts /\ matches = <<>>

\* C7 witness: the input exists and the search root holds matching children
C7_Witness ==
    /\ exists(fs0, input) /\ Returned /\ resolved = <<input>>
    /\ Cardinality(Matching) >= 2

\* C8 (as amended): for a non-existing input and a search root with exactly one
\* immediate child that matches, not counting the children whose lowercased
\* name ends in .aria2, .part or .tmp, resolve returns that child and reads no
\* line; no result of fuzzy resolution carries one of the three suffixes in any
\* letter case, and none lies below the first level of the search root.
C8_UniqueMatch ==
    /\ (~exists(fs0, input) /\ Cardinality(Matching) = 1 /\ pc # "resolve") =>
          /\ Returned /\ resolved = <<CHOOSE p \in Matching : TRUE>> /\ err = ""
          /\ prompts = NoPrompts
    /\ (~exists(fs0, input) /\ Returned) =>
          /\ ~Excluded(resolved[1])
          /\ parent(resolved[1]) = SearchDir /\ exists(fs0, resolved[1])

\* C8 witness: the unique match was returned although temporaries (one spelt in
\* capitals) and a deeper entry match the input as well
C8_Witness ==
    /\ ~exists(fs0, input) /\ Cardinality(Matching) = 1 /\ Returned
    /\ \E p \in Children(fs0, SearchDir) : Excluded(p) /\ ~ExcludedAsSpelt(p) /\ NameMatches(p)
    /\ \E p \in DOMAIN fs0 : Len(p) > 2 /\ IsPrefix(SearchDir, p) /\ NameMatches(p)

\* C8 as stated: the suffixes are those of the name as spelt, so that a child
\* ga.TMP counts as a match and, when it is the only one, is returned.
C8_AsStated ==
    (~exists(fs0, input) /\ Cardinality(MatchingAsSpelt) = 1 /\ pc # "resolve") =>
        /\ Returned /\ resolved = <<CHOOSE p \in MatchingAsSpelt : TRUE>>
        /\ prompts = NoPrompts

\* C9: for a non-existing input and a search root without a matching
\* non-excluded child (an empty root and a root that cannot be read included),
\* resolve fails with NotFound and reads no line.
C9_NotFound ==
    (~exists(fs0, input) /\ Matching = {} /\ pc # "resolve") =>
        /\ Failed /\ err = "NotFound" /\ resolved = <<>>
        /\ prompts = NoPrompts

\* C9 witness: NotFound although the search root holds children, all of them
\* either excluded or not matching
C9_Witness ==
    /\ ~exists(fs0, input) /\ Failed /\ err = "NotFound"
    /\ \E p \in Children(fs0, SearchDir) : Excluded(p) /\ NameMatches(p)
    /\ \E p \in Children(fs0, SearchDir) : ~Excluded(p) /\ ~NameMatches(p)

\* C9 second witness: NotFound because the search root cannot be listed
C9_WitnessUnreadable ==
    /\ ~exists(fs0, input) /\ Failed /\ err = "NotFound" /\ ~is_dir(fs0, SearchDir)

----------------------------------------------------------------------------
(* Archive Extractor: the target directory name                            *)
(* (installation.rs:10-19, main.rs:197-207)                                *)

\* the positions of the dots of a file name
DotsOf(n) == {i \in 1..Len(n) : n[i] = "."}
LastDot(n) == CHOOSE i \in DotsOf(n) : \A j \in DotsOf(n) : j <= i

\* Path::file_stem of a file name: the whole name when it has no dot, or when
\* its only dot leads it; else the part before the last dot
file_stem(n) ==
    IF n = <<".", ".">> \/ DotsOf(n) = {} \/ LastDot(n) = 1
    THEN n
    ELSE SubSeq(n, 1, LastDot(n) - 1)

dot_tar == <<".","t","a","r">>

\* installation.rs:13-17 stripping the second extension whatever it is
dir_name_mut(archive_name) == file_stem(file_stem(archive_name))

\* installation.rs:10-17: stem, and the stem of the stem when it ends in .tar
dir_name(archive_name) ==
    LET stem == file_stem(archive_name)
    IN  IF ends_with(stem, dot_tar) THEN file_stem(stem) ELSE stem

\* installation.rs:19: install_dir.join(dir_name)
target_dir_of(archive_path, install_dir) ==
    join(install_dir, dir_name(file_name(archive_path)))

----------------------------------------------------------------------------
(* SpecName: the target directory derivation on its own, over bounded      *)
(* archive file names                                                       *)

n_gm  == <<"g","m">>                      \* config.install_dir
n_alt == <<"a","l","t">>                  \* an install parent typed by the operator

InstallDir == <<n_gm>>
AltDir == <<n_alt>>

\* the pieces archive file names are built from
NamePieces ==
    { <<"f">>, <<".">>, <<"t","a","r">>, <<".","t","a","r">>, <<".","g","z">>,
      <<".","x","z">>, <<".","b","z","2">>, <<".","z","i","p">> }

RECURSIVE NamesOf(_)
NamesOf(k) ==
    IF k = 0 THEN {<<>>}
    ELSE LET shorter == NamesOf(k - 1)
         IN  shorter \cup {n \o piece : n \in shorter, piece \in NamePieces}

\* the names a file can bear
ArchiveNames == NamesOf(MaxPieces) \ {<<>>, <<".">>, <<".",".">>}

\* installation.rs:10-19: the derivation at the head of extract_archive
DeriveTargetDir ==
    /\ pc = "derive"
    /\ target_dir' = <<target_dir_of(input_path[1], target_parent[1])>>
    /\ pc' = "derived"
    /\ UNCHANGED <<revision, dry_run, input, fs, fs0, err, input_path, target_parent>>
    /\ UNCHANGED <<resolve_vars, discover_vars, run_vars>>
    /\ UNCHANGED <<icon, candidates, aux_vars>>

InitName ==
    /\ pc = "derive"
    /\ revision = "main"
    /\ dry_run = FALSE
    /\ input_path \in {<<join(SearchDir, n)>> : n \in ArchiveNames}
    /\ target_parent \in {<<InstallDir>>, <<AltDir>>}
    /\ input = input_path[1]
    /\ fs = MkFs({<<SearchDir, DirEntry>>, <<input_path[1], FileEntry>>})
    /\ fs0 = fs
    /\ matches = <<>> /\ resolved = <<>> /\ err = "" /\ prompts = NoPrompts /\ scans = 0
    /\ target_dir = <<>>
    /\ game_dir = <<>> /\ walk = <<>> /\ executable = <<>>
    /\ fs_in = fs /\ tools = <<>> /\ created_files = <<>>
    /\ icon = <<>> /\ candidates = <<>> /\ sniffed = <<>> /\ calls = <<>> /\ runs = <<>>

NextName == DeriveTargetDir

SpecName == InitName /\ [][NextName]_vars

----------------------------------------------------------------------------
(* Properties of the target directory derivation                           *)

ArchiveName == file_name(input_path[1])

\* a name with its outermost extension removed: the text before its last dot;
\* a name without a dot, and a name whose only dot leads it, has no extension
WithoutExtension(n) ==
    LET dots == {i \in 1..Len(n) : n[i] = "."}
    IN  IF dots = {} \/ dots = {1} THEN n
        ELSE SubSeq(n, 1, (CHOOSE i \in dots : \A j \in dots : j <= i) - 1)

EndsInTar(n) == Len(n) >= 4 /\ SubSeq(n, Len(n) - 3, Len(n)) = <<".","t","a","r">>

\* the target name of the claim as stated: the .tar ending of the remainder is
\* always removed
StatedName(n) ==
    LET r == WithoutExtension(n)
    IN  IF EndsInTar(r) THEN SubSeq(r, 1, Len(r) - 4) ELSE r

\* the target name of the amended claim: a remainder that is exactly .tar stays
AmendedName(n) ==
    LET r == WithoutExtension(n)
    IN  IF EndsInTar(r) /\ Len(r) > 4 THEN SubSeq(r, 1, Len(r) - 4) ELSE r

Name_f == <<"f">>

\* C10 (as amended): the target directory is the install parent joined with the
\* archive file name stripped of its outermost extension and, when the
\* remainder still ends in .tar and is longer than .tar, of that .tar too (at
\* most these two strips; a remainder that is exactly .tar is kept). f.tar.gz,
\* f.tar.xz, f.tar.bz2 and f.zip all yield f.
C10_TargetName ==
    pc = "derived" =>
        /\ target_dir = <<join(target_parent[1], AmendedName(ArchiveName))>>
        /\ ArchiveName \in { Name_f \o dot_tar \o <<".","g","z">>,
                              Name_f \o dot_tar \o <<".","x","z">>,
                              Name_f \o dot_tar \o <<".","b","z","2">>,
                              Name_f \o <<".","z","i","p">> }
             => file_name(target_dir[1]) = Name_f

\* C10 witness: f.tar.gz was given and the target directory is named f
C10_Witness ==
    /\ pc = "derived"
    /\ ArchiveName = <<"f",".","t","a","r",".","g","z">>
    /\ target_dir = <<join(target_parent[1], <<"f">>)>>

\* C10 as stated: whenever the remainder ends in .tar, that .tar is stripped.
C10_AsStated ==
    pc = "derived" => target_dir = <<join(target_parent[1], StatedName(ArchiveName))>>
----------------------------------------------------------------------------
(* Binary Sniffer: is_elf_binary (discovery.rs:63-74, main.rs:385-396)     *)

ELF_MAGIC == <<127, 69, 76, 70>>

\* discovery.rs:65-68: fs::File::open; a missing entry or one the process may not
\* read gives Err (a directory opens, and fails at the read)
file_open_ok(f, p) == exists(f, p) /\ f[p].readable

\* discovery.rs:69-72: read_exact of n bytes; a directory or a file with fewer
\* bytes gives Err
read_exact_ok(f, p, n) == f[p].kind = "file" /\ Len(f[p].magic) >= n

\* discovery.rs:73 comparing as many bytes as the file has
is_elf_binary_mut(f, p) ==
    /\ file_open_ok(f, p)
    /\ f[p].kind = "file"
    /\ f[p].magic = SubSeq(ELF_MAGIC, 1, Len(f[p].magic))

\* discovery.rs:63-74: the file is opened, four bytes are read, and they are
\* compared to the magic; a failure to open or to read four bytes gives false
is_elf_binary(f, p) ==
    /\ file_open_ok(f, p)
    /\ read_exact_ok(f, p, 4)
    /\ SubSeq(f[p].magic, 1, 4) = ELF_MAGIC

----------------------------------------------------------------------------
(* SpecSniff: is_elf_binary on its own, over bounded files                  *)

\* a file under test holds at most this many bytes
MaxBytes == 4

\* the bytes of the ELF and of the PNG magic
SniffBytes == {127, 69, 76, 70, 137, 80, 78, 71}

RECURSIVE ByteSeqs(_)
ByteSeqs(k) ==
    IF k = 0 THEN {<<>>}
    ELSE LET shorter == ByteSeqs(k - 1)
         IN  shorter \cup {Append(b, x) : b \in {c \in shorter : Len(c) = k - 1}, x \in SniffBytes}

\* the path handed to is_elf_binary, and what may be there: nothing, a
\* directory, or a file with some bytes, readable or not
SniffPath == <<n_gm, <<"x">>>>
SniffEntries ==
    {DirEntry, [DirEntry EXCEPT !.readable = FALSE]}
    \cup {[FileEntry EXCEPT !.magic = b, !.readable = r] : b \in ByteSeqs(MaxBytes), r \in BOOLEAN}
SniffFilesystems ==
    {MkFs({<<<<n_gm>>, DirEntry>>})}
    \cup {MkFs({<<<<n_gm>>, DirEntry>>, <<SniffPath, x>>}) : x \in SniffEntries}

\* discovery.rs:63-74: one call of is_elf_binary
Sniff ==
    /\ pc = "sniff"
    /\ sniffed' = <<is_elf_binary(fs, SniffPath)>>
    /\ pc' = "sniffed"
    /\ UNCHANGED <<revision, dry_run, input, fs, fs0, err, resolve_vars, install_vars,
                   discover_vars, run_vars, icon, candidates, calls, runs>>

InitSniff ==
    /\ pc = "sniff"
    /\ revision = "modular" /\ dry_run = FALSE
    /\ fs \in SniffFilesystems
    /\ fs0 = fs /\ fs_in = fs
    /\ input = SniffPath /\ input_path = <<>>
    /\ matches = <<>> /\ resolved = <<>> /\ err = "" /\ prompts = NoPrompts /\ scans = 0
    /\ target_parent = <<>> /\ target_dir = <<>>
    /\ game_dir = <<>> /\ walk = <<>> /\ executable = <<>>
    /\ tools = <<>> /\ created_files = <<>>
    /\ icon = <<>> /\ candidates = <<>> /\ sniffed = <<>> /\ calls = <<>> /\ runs = <<>>

NextSniff == Sniff

SpecSniff == InitSniff /\ [][NextSniff]_vars

----------------------------------------------------------------------------
(* Properties of the Binary Sniffer                                        *)

\* the bytes of the file at SniffPath, <<>> when there is no file
SniffedBytes ==
    IF SniffPath \in DOMAIN fs /\ fs[SniffPath].kind = "file" THEN fs[SniffPath].magic ELSE <<>>

\* the file is there, may be read, and starts with 7F 45 4C 46
StartsWithElfMagic ==
    /\ SniffPath \in DOMAIN fs /\ fs[SniffPath].kind = "file" /\ fs[SniffPath].readable
    /\ Len(SniffedBytes) >= 4
    /\ SniffedBytes[1] = 127 /\ SniffedBytes[2] = 69
    /\ SniffedBytes[3] = 76 /\ SniffedBytes[4] = 70

\* C15: is_elf_binary returns true exactly when the file can be opened and its
\* first four bytes are 7F 45 4C 46; a missing or unreadable file, an empty or
\* shorter file and any other prefix give false; no error reaches the caller.
C15_BinarySniffer ==
    pc = "sniffed" =>
        /\ sniffed \in {<<TRUE>>, <<FALSE>>}
        /\ sniffed[1] <=> StartsWithElfMagic
        /\ err = ""

\* C15 witness: a file of exactly the four magic bytes was detected
C15_Witness ==
    pc = "sniffed" /\ SniffedBytes = <<127, 69, 76, 70>> /\ sniffed = <<TRUE>>

\* C15 further witnesses: a three-byte file, the PNG magic, and an unreadable
\* ELF file were rejected
C15_WitnessShort ==
    pc = "sniffed" /\ SniffedBytes = <<127, 69, 76>> /\ sniffed = <<FALSE>>
C15_WitnessPng ==
    pc = "sniffed" /\ SniffedBytes = <<137, 80, 78, 71>> /\ sniffed = <<FALSE>>
C15_WitnessUnreadable ==
    /\ pc = "sniffed" /\ SniffedBytes = <<127, 69, 76, 70>>
    /\ ~fs[SniffPath].readable /\ sniffed = <<FALSE>>

----------------------------------------------------------------------------
(* Executable Discoverer: discover_executable                              *)
(* (discovery.rs:6-39, main.rs:312-348)                                    *)

\* WalkDir::max_depth
WALK_MAX_DEPTH == 3

\* WalkDir::new(d).max_depth(3): every pre-order listing of the entries at most
\* three levels below d, d itself first; an entry that does not exist yields
\* nothing (the error is filtered out)
RECURSIVE WalkFrom(_, _, _), WalkEach(_, _, _)
WalkFrom(f, d, depth) ==
    IF is_dir(f, d) /\ depth < WALK_MAX_DEPTH
    THEN UNION { {<<d>> \o w : w \in WalkEach(f, order, depth + 1)} : order \in read_dir(f, d) }
    ELSE {<<d>>}
WalkEach(f, order, depth) ==
    IF order = <<>> THEN {<<>>}
    ELSE { a \o b : a \in WalkFrom(f, Head(order), depth), b \in WalkEach(f, Tail(order), depth) }

WalkDir(f, d) == IF exists(f, d) THEN WalkFrom(f, d, 0) ELSE {<<>>}

n_start_sh    == <<"s","t","a","r","t",".","s","h">>
n_run_sh      == <<"r","u","n",".","s","h">>
n_launcher_sh == <<"l","a","u","n","c","h","e","r",".","s","h">>
dot_AppImage  == <<".","A","p","p","I","m","a","g","e">>
dot_x86_64    == <<".","x","8","6","_","6","4">>
dot_x86       == <<".","x","8","6">>
slash_lib     == <<"/","l","i","b","/">>
slash_docs    == <<"/","d","o","c","s","/">>

\* main.rs:322: the launcher scripts in the root
is_launcher_main(root, p) ==
    /\ parent(p) = root
    /\ file_name(p) \in {n_start_sh, n_run_sh, n_launcher_sh}

\* discovery.rs:16 without the test that the file lies in the root
is_launcher_mut(root, p) ==
    \/ file_name(p) \in {n_start_sh, n_run_sh, n_launcher_sh}
    \/ ends_with(file_name(p), dot_AppImage)

\* discovery.rs:16: the launcher scripts in the root, or an AppImage there
is_launcher(root, p) ==
    /\ parent(p) = root
    /\ \/ file_name(p) \in {n_start_sh, n_run_sh, n_launcher_sh}
       \/ ends_with(file_name(p), dot_AppImage)

\* discovery.rs:21-32: the file is pushed onto candidates
is_candidate(f, p) ==
    IF ends_with(file_name(p), dot_x86_64) \/ ends_with(file_name(p), dot_x86)
    THEN is_elf_binary(f, p)
    ELSE /\ ~contains(file_name(p), <<".">>)
         /\ ~contains(to_string_lossy(p), slash_lib)
         /\ ~contains(to_string_lossy(p), slash_docs)
         /\ is_elf_binary(f, p)

\* Path::components().count() of an absolute path: the root and the names
components_count(p) == Len(p) + 1

\* discovery.rs:36 with the two parts of the key exchanged
sort_key_mut(p) == <<Len(file_name(p)), components_count(p)>>

\* discovery.rs:36: the sort key
sort_key(p) == <<components_count(p), Len(file_name(p))>>

\* the order of the keys (tuples compare lexicographically)
key_le(a, b) == a[1] < b[1] \/ (a[1] = b[1] /\ a[2] <= b[2])

\* slice::sort_by_key: a stable sort, here by insertion from the left
RECURSIVE sort_by_key(_)
sort_by_key(s) ==
    IF s = <<>> THEN <<>>
    ELSE LET x    == s[Len(s)]
             rest == sort_by_key(SubSeq(s, 1, Len(s) - 1))
             keep == {i \in 1..Len(rest) : key_le(sort_key(rest[i]), sort_key(x))}
             k    == Cardinality(keep)
         IN  SubSeq(rest, 1, k) \o <<x>> \o SubSeq(rest, k + 1, Len(rest))

\* the Tier-1 test of the revision
launcher(rev, root, p) ==
    IF rev = "modular" THEN is_launcher(root, p) ELSE is_launcher_main(root, p)

\* discovery.rs:9-34: the loop over the walk. The result is the early return,
\* or the candidates collected.
RECURSIVE walk_loop(_, _, _, _, _)
walk_loop(f, root, w, pushed, rev) ==
    IF w = <<>> THEN [returned |-> <<>>, candidates |-> pushed]
    ELSE LET p == Head(w)
         IN  IF ~is_file(f, p) THEN walk_loop(f, root, Tail(w), pushed, rev)
             ELSE IF launcher(rev, root, p) THEN [returned |-> <<p>>, candidates |-> pushed]
             ELSE IF is_candidate(f, p)
                  THEN walk_loop(f, root, Tail(w), Append(pushed, p), rev)
                  ELSE walk_loop(f, root, Tail(w), pushed, rev)

\* discovery.rs:6-39: <<the executable>>, or <<>> for the NoExecutableFound error
discover_executable_in(f, root, w, rev) ==
    LET r == walk_loop(f, root, w, <<>>, rev)
    IN  IF r.returned # <<>> THEN r.returned
        ELSE LET sorted == sort_by_key(r.candidates)
             IN  IF sorted = <<>> THEN <<>> ELSE <<sorted[1]>>

dot_png == <<".","p","n","g">>
dot_svg == <<".","s","v","g">>
dot_ico == <<".","i","c","o">>
s_icon  == <<"i","c","o","n">>
s_logo  == <<"l","o","g","o">>

\* discovery.rs:47: the lowercased file name
icon_file_name(p) == to_lowercase(file_name(p))

\* discovery.rs:48: the file is pushed onto candidates
is_icon(p) ==
    \/ ends_with(icon_file_name(p), dot_png)
    \/ ends_with(icon_file_name(p), dot_svg)
    \/ ends_with(icon_file_name(p), dot_ico)

\* discovery.rs:49-53: the score
icon_score(p) ==
    IF contains(icon_file_name(p), s_icon) \/ contains(icon_file_name(p), s_logo)
    THEN 10 ELSE 1

\* discovery.rs:59 with the score not negated
icon_sort_key_mut(c) == <<c[1], components_count(c[2])>>

\* discovery.rs:59: the sort key of a candidate (score, path)
icon_sort_key(c) == <<-c[1], components_count(c[2])>>

\* slice::sort_by_key on the icon candidates: a stable sort
RECURSIVE sort_icons(_)
sort_icons(s) ==
    IF s = <<>> THEN <<>>
    ELSE LET x    == s[Len(s)]
             rest == sort_icons(SubSeq(s, 1, Len(s) - 1))
             keep == {i \in 1..Len(rest) : key_le(icon_sort_key(rest[i]), icon_sort_key(x))}
             k    == Cardinality(keep)
         IN  SubSeq(rest, 1, k) \o <<x>> \o SubSeq(rest, k + 1, Len(rest))

\* discovery.rs:44-57: the loop over the walk
RECURSIVE icon_candidates(_, _)
icon_candidates(f, w) ==
    IF w = <<>> THEN <<>>
    ELSE LET p == Head(w)
         IN  IF is_file(f, p) /\ is_icon(p)
             THEN <<<<icon_score(p), p>>>> \o icon_candidates(f, Tail(w))
             ELSE icon_candidates(f, Tail(w))

\* discovery.rs:41-61: <<the icon>>, or <<>> for None
discover_icon_in(f, w) ==
    LET sorted == sort_icons(icon_candidates(f, w))
    IN  IF sorted = <<>> THEN <<>> ELSE <<sorted[1][2]>>

\* main.rs:142: under dry-run, a game directory that does not exist is not walked
skips_discovery(dry, f, dir) == dry /\ ~exists(f, dir)

\* discovery.rs:6-39: discover_executable of the modular revision (called from
\* main.rs:146), and discover_icon on its success (main.rs:149-153; args.icon is
\* not given)
DiscoverExecutable ==
    /\ pc = "discover"
    /\ revision = "modular"
    /\ ~skips_discovery(dry_run, fs, game_dir[1])
    /\ \E w \in WalkDir(fs, game_dir[1]) :
         LET r == discover_executable_in(fs, game_dir[1], w, "modular")
         IN  /\ walk' = w
             /\ candidates' = walk_loop(fs, game_dir[1], w, <<>>, "modular").candidates
             /\ executable' = r
             /\ IF r = <<>>
                THEN pc' = "failed" /\ err' = "NoExecutableFound" /\ icon' = icon
                ELSE /\ pc' = "discovered" /\ err' = err
                     /\ \E wi \in WalkDir(fs, game_dir[1]) : icon' = discover_icon_in(fs, wi)
    /\ UNCHANGED <<revision, dry_run, input, fs, fs0, game_dir>>
    /\ UNCHANGED <<resolve_vars, install_vars, run_vars>>
    /\ UNCHANGED aux_vars

\* main.rs:312-348: discover_executable of the monolithic revision, and
\* discover_icon (main.rs:350-370) on its success
DiscoverExecutableMain ==
    /\ pc = "discover"
    /\ revision = "main"
    /\ ~skips_discovery(dry_run, fs, game_dir[1])
    /\ \E w \in WalkDir(fs, game_dir[1]) :
         LET r == discover_executable_in(fs, game_dir[1], w, "main")
         IN  /\ walk' = w
             /\ candidates' = walk_loop(fs, game_dir[1], w, <<>>, "main").candidates
             /\ executable' = r
             /\ IF r = <<>>
                THEN pc' = "failed" /\ err' = "NoExecutableFound" /\ icon' = icon
                ELSE /\ pc' = "discovered" /\ err' = err
                     /\ \E wi \in WalkDir(fs, game_dir[1]) : icon' = discover_icon_in(fs, wi)
    /\ UNCHANGED <<revision, dry_run, input, fs, fs0, game_dir>>
    /\ UNCHANGED <<resolve_vars, install_vars, run_vars>>
    /\ UNCHANGED aux_vars

----------------------------------------------------------------------------
(* SpecDiscover: discover_executable on its own, over bounded trees         *)

\* at most this many files are placed in the tree
MaxFiles == 3

n_f        == <<"f">>
n_bin      == <<"b","i","n">>
n_lib      == <<"l","i","b">>
n_s_AppImage == <<"s">> \o dot_AppImage
n_g_x86_64 == <<"g">> \o dot_x86_64
n_h_x86_64 == <<"h">> \o dot_x86_64
n_t_x86    == <<"t">> \o dot_x86
n_gg       == <<"g","g">>
n_hh       == <<"h","h">>
n_q        == <<"q">>
n_so       == <<"s","o">>
n_a        == <<"a">>
n_c        == <<"c">>
n_docs     == <<"d","o","c","s">>

\* the directory discovery is run on, and the same below a directory named lib
GameDir == <<n_gm, n_f>>
LibGameDir == <<n_lib, n_f>>

\* the files a tree may hold, as <<path below the root, entry>>
DiscoverPool ==
    { <<<<n_run_sh>>, FileEntry>>,            \* Tier 1
      <<<<n_s_AppImage>>, ElfEntry>>,         \* Tier 1 (an AppImage)
      <<<<n_bin, n_run_sh>>, FileEntry>>,     \* a launcher name, but nested
      <<<<n_g_x86_64>>, ElfEntry>>,           \* ELF, depth 1, long name
      <<<<n_bin, n_h_x86_64>>, ElfEntry>>,    \* ELF, depth 2
      <<<<n_gg>>, ElfEntry>>,                 \* ELF without extension, depth 1
      <<<<n_hh>>, ElfEntry>>,                 \* the same key as gg
      <<<<n_bin, n_q>>, ElfEntry>>,           \* shortest name, but depth 2
      <<<<n_lib, n_so>>, ElfEntry>>,          \* ELF without extension inside lib
      <<<<n_t_x86>>, PngEntry>>,              \* .x86 name, not an ELF
      <<<<n_q>>, PngEntry>>,                  \* no extension, not an ELF
      <<<<n_lib, n_g_x86_64>>, ElfEntry>>,    \* ELF with an extension inside lib
      <<<<n_docs, n_q>>, ElfEntry>>,          \* ELF without extension inside docs
      <<<<n_a, n_b, n_q>>, ElfEntry>>,        \* ELF, depth 3
      <<<<n_a, n_b, n_c, n_q>>, ElfEntry>> }  \* ELF, depth 4: not walked

\* the tree made of the chosen files, below root, with the directories they need
TreeOf(root, files) ==
    MkFs( {<<SubSeq(root, 1, k), DirEntry>> : k \in 1..Len(root)}
          \cup UNION { {<<root \o SubSeq(pr[1], 1, k), DirEntry>> : k \in 1..(Len(pr[1]) - 1)} :
                        pr \in files }
          \cup {<<root \o pr[1], pr[2]>> : pr \in files} )

DiscoverTrees(root) ==
    { TreeOf(root, files) : files \in {S \in SUBSET DiscoverPool : Cardinality(S) <= MaxFiles} }

InitDiscover ==
    /\ pc = "discover"
    /\ revision \in {"main", "modular"}
    /\ dry_run = FALSE
    /\ game_dir \in {<<GameDir>>, <<LibGameDir>>}
    /\ fs \in DiscoverTrees(game_dir[1])
    /\ fs0 = fs
    /\ input = game_dir[1] /\ input_path = game_dir
    /\ matches = <<>> /\ resolved = game_dir /\ err = "" /\ prompts = NoPrompts /\ scans = 0
    /\ target_parent = <<>> /\ target_dir = <<>>
    /\ walk = <<>> /\ executable = <<>>
    /\ fs_in = fs /\ tools = <<>> /\ created_files = <<>>
    /\ icon = <<>> /\ candidates = <<>> /\ sniffed = <<>> /\ calls = <<>> /\ runs = <<>>

NextDiscover == DiscoverExecutable \/ DiscoverExecutableMain

SpecDiscover == InitDiscover /\ [][NextDiscover]_vars

----------------------------------------------------------------------------
(* Properties of the Executable Discoverer                                 *)

Root == game_dir[1]

\* the files that are direct children of the root and bear a Tier-1 name
Tier1Files ==
    { p \in Children(fs0, Root) :
        /\ fs0[p].kind = "file"
        /\ \/ file_name(p) \in { <<"s","t","a","r","t",".","s","h">>, <<"r","u","n",".","s","h">>,
                                 <<"l","a","u","n","c","h","e","r",".","s","h">> }
           \/ ends_with(file_name(p), <<".","A","p","p","I","m","a","g","e">>) }

\* the Tier-2 candidates: the files within three levels of the root that the
\* walk collects
Tier2Files ==
    { p \in DOMAIN fs0 :
        /\ IsPrefix(Root, p) /\ Len(p) - Len(Root) <= 3
        /\ fs0[p].kind = "file"
        /\ is_candidate(fs0, p) }

Depth(p) == Len(p) - Len(Root)
NameLen(p) == Len(p[Len(p)])
KeyBefore(p, q) == Depth(p) < Depth(q) \/ (Depth(p) = Depth(q) /\ NameLen(p) < NameLen(q))
KeyEqual(p, q) == Depth(p) = Depth(q) /\ NameLen(p) = NameLen(q)
WalkPos(p) == CHOOSE i \in 1..Len(walk) : walk[i] = p

\* C2: when some direct child of the root is a file named start.sh, run.sh or
\* launcher.sh, or with a name ending in .AppImage, discover_executable returns
\* such a direct child, whatever Tier-2 candidates exist and whatever the order
\* of the walk; such a name below a subdirectory never short-circuits.
C2_Tier1ShortCircuit ==
    pc # "discover" =>
        /\ Tier1Files # {} => (pc = "discovered" /\ executable[1] \in Tier1Files)
        /\ (pc = "discovered" /\ executable[1] \notin Tier1Files) => executable[1] \in Tier2Files

\* C2 restricted to the modular revision (discovery.rs), where it holds
C2_Tier1ShortCircuitModular == revision = "modular" => C2_Tier1ShortCircuit

\* the modular revision returned run.sh although the walk had already met a
\* Tier-2 candidate and a nested run.sh exists
C2_WitnessModular ==
    /\ revision = "modular" /\ pc = "discovered"
    /\ executable[1] = join(Root, <<"r","u","n",".","s","h">>)
    /\ \E p \in Tier2Files : WalkPos(p) < WalkPos(executable[1])

\* C3: without a Tier-1 file, the path returned is a Tier-2 candidate with the
\* least key (depth, name length); of the candidates with that key it is the one
\* the walk met first. g.x86_64 in the root is preferred to bin/h.x86_64.
C3_Tier2Selection ==
    (pc # "discover" /\ Tier1Files = {} /\ Tier2Files # {}) =>
        /\ pc = "discovered"
        /\ executable[1] \in Tier2Files
        /\ \A c \in Tier2Files :
             /\ ~KeyBefore(c, executable[1])
             /\ KeyEqual(c, executable[1]) => WalkPos(executable[1]) <= WalkPos(c)

\* C3 witness: g.x86_64 was chosen over bin/h.x86_64 and over bin/q, whose name
\* is shorter, although the walk met bin first
C3_Witness ==
    /\ pc = "discovered" /\ Tier1Files = {}
    /\ executable[1] = join(Root, <<"g",".","x","8","6","_","6","4">>)
    /\ \E c \in Tier2Files : Depth(c) = 2 /\ NameLen(c) = NameLen(executable[1])
                               /\ WalkPos(c) < WalkPos(executable[1])
    /\ \E c \in Tier2Files : Depth(c) = 2 /\ NameLen(c) < NameLen(executable[1])

\* C3 second witness: two candidates with equal keys, the one met first returned
C3_WitnessTie ==
    /\ pc = "discovered" /\ Tier1Files = {}
    /\ \E c \in Tier2Files : c # executable[1] /\ KeyEqual(c, executable[1])

\* the file at p starts with the four bytes 7F 45 4C 46 and may be read
ElfMagicAt(f, p) ==
    /\ f[p].readable /\ Len(f[p].magic) >= 4
    /\ f[p].magic[1] = 127 /\ f[p].magic[2] = 69 /\ f[p].magic[3] = 76 /\ f[p].magic[4] = 70

\* the name ends in .x86_64 or .x86
NativeExtension(n) ==
    \/ Len(n) >= 7 /\ SubSeq(n, Len(n) - 6, Len(n)) = <<".","x","8","6","_","6","4">>
    \/ Len(n) >= 4 /\ SubSeq(n, Len(n) - 3, Len(n)) = <<".","x","8","6">>

\* some directory on the way from the root down to the file is named lib or docs
InsideLibOrDocs(p) ==
    \E k \in (Len(Root) + 1)..(Len(p) - 1) : p[k] \in { <<"l","i","b">>, <<"d","o","c","s">> }

\* the Tier-1 files of the filesystem f: the direct children of the root that
\* are files named start.sh, run.sh, launcher.sh or *.AppImage
Tier1In(f) ==
    { p \in DOMAIN f :
        /\ Len(p) = Len(Root) + 1 /\ IsPrefix(Root, p)
        /\ f[p].kind = "file"
        /\ \/ p[Len(p)] \in { <<"s","t","a","r","t",".","s","h">>, <<"r","u","n",".","s","h">>,
                              <<"l","a","u","n","c","h","e","r",".","s","h">> }
           \/ /\ Len(p[Len(p)]) >= 9
              /\ SubSeq(p[Len(p)], Len(p[Len(p)]) - 8, Len(p[Len(p)]))
                    = <<".","A","p","p","I","m","a","g","e">> }

\* the Tier-2 candidates of the filesystem f as the membership rule states
\* them: within three levels of the root, passing the sniffer, and either with
\* a native extension or without any dot and outside lib and docs
StatedTier2In(f) ==
    { p \in DOMAIN f :
        /\ IsPrefix(Root, p) /\ Len(p) - Len(Root) >= 1 /\ Len(p) - Len(Root) <= 3
        /\ f[p].kind = "file"
        /\ ElfMagicAt(f, p)
        /\ \/ NativeExtension(p[Len(p)])
           \/ /\ \A i \in 1..Len(p[Len(p)]) : p[Len(p)][i] # "."
              /\ ~InsideLibOrDocs(p) }

\* the walk went to its end: no Tier-1 file cut it short
WalkCompleted ==
    \/ pc = "failed" /\ err = "NoExecutableFound"
    \/ pc = "discovered" /\ \E i \in 1..Len(candidates) : candidates[i] = executable[1]

Collected == {candidates[i] : i \in 1..Len(candidates)}

\* C17: the candidates discover_executable collects are the files within depth 3
\* that pass the sniffer and either end in .x86_64 or .x86, or have no dot in
\* their name and no directory named lib or docs between the root and them;
\* where the root itself lies makes no difference.
C17_Tier2Membership ==
    WalkCompleted => Collected = StatedTier2In(fs)

\* C17 for a root that has no ancestor named lib or docs, where it holds
C17_Tier2MembershipPlainRoot ==
    (\A k \in 1..Len(Root) : Root[k] \notin { <<"l","i","b">>, <<"d","o","c","s">> })
        => C17_Tier2Membership

\* the plain root held an ELF with an extension inside lib, collected, and an
\* ELF without extension inside lib, not collected
C17_WitnessPlainRoot ==
    /\ WalkCompleted /\ Root = GameDir
    /\ \E p \in Collected : InsideLibOrDocs(p)
    /\ \E p \in DOMAIN fs : InsideLibOrDocs(p) /\ fs[p].kind = "file" /\ ElfMagicAt(fs, p)
                              /\ p \notin Collected

----------------------------------------------------------------------------
(* SpecIcon: discover_icon on its own, over bounded trees                   *)

n_logo_png  == s_logo \o dot_png
n_sp_png    == <<"s","p">> \o dot_png
n_icon_svg  == s_icon \o dot_svg
n_Logo_ICO  == <<"L","o","g","o",".","I","C","O">>
n_x_PNG     == <<"x",".","P","N","G">>
n_t_svg     == <<"t">> \o dot_svg

\* the files a tree may hold, as <<path below the root, entry>>
IconPool ==
    { <<<<n_logo_png>>, PngEntry>>,             \* score 10, depth 1
      <<<<n_sp_png>>, PngEntry>>,               \* score 1, depth 1
      <<<<n_x_PNG>>, PngEntry>>,                \* score 1, depth 1, capitals
      <<<<n_a, n_Logo_ICO>>, FileEntry>>,       \* score 10, depth 2, capitals
      <<<<n_bin, n_t_svg>>, FileEntry>>,        \* score 1, depth 2
      <<<<n_a, n_b, n_icon_svg>>, FileEntry>>,  \* score 10, depth 3
      <<<<n_a, n_b, n_c, n_logo_png>>, PngEntry>>,  \* depth 4: not walked
      <<<<s_icon>>, PngEntry>>,                 \* no extension
      <<<<n_gg>>, ElfEntry>> }                  \* no icon

IconTrees ==
    { TreeOf(GameDir, files) : files \in {S \in SUBSET IconPool : Cardinality(S) <= MaxFiles} }

\* discovery.rs:41-61: one call of discover_icon
DiscoverIcon ==
    /\ pc = "discover_icon"
    /\ \E w \in WalkDir(fs, game_dir[1]) :
         /\ walk' = w
         /\ icon' = discover_icon_in(fs, w)
    /\ pc' = "icon_done"
    /\ UNCHANGED <<revision, dry_run, input, fs, fs0, err, resolve_vars, install_vars,
                   game_dir, executable, run_vars, candidates, aux_vars>>

InitIcon ==
    /\ pc = "discover_icon"
    /\ revision \in {"main", "modular"}
    /\ dry_run = FALSE
    /\ game_dir = <<GameDir>>
    /\ fs \in IconTrees
    /\ fs0 = fs /\ fs_in = fs
    /\ input = GameDir /\ input_path = <<GameDir>>
    /\ matches = <<>> /\ resolved = <<GameDir>> /\ err = "" /\ prompts = NoPrompts /\ scans = 0
    /\ target_parent = <<>> /\ target_dir = <<>>
    /\ walk = <<>> /\ executable = <<>>
    /\ tools = <<>> /\ created_files = <<>>
    /\ icon = <<>> /\ candidates = <<>> /\ sniffed = <<>> /\ calls = <<>> /\ runs = <<>>

NextIcon == DiscoverIcon

SpecIcon == InitIcon /\ [][NextIcon]_vars

----------------------------------------------------------------------------
(* Properties of the Icon Discoverer                                       *)

\* the name in small letters ends in .png, .svg or .ico
IconName(n) ==
    LET l == to_lowercase(n)
    IN  Len(l) >= 4 /\ SubSeq(l, Len(l) - 3, Len(l)) \in
           { <<".","p","n","g">>, <<".","s","v","g">>, <<".","i","c","o">> }

\* the icon files within three levels of the root
IconFiles ==
    { p \in DOMAIN fs :
        /\ IsPrefix(Root, p) /\ Depth(p) >= 1 /\ Depth(p) <= 3
        /\ fs[p].kind = "file"
        /\ IconName(p[Len(p)]) }

\* 10 for a name that, in small letters, holds icon or logo; else 1
Score(p) ==
    LET l == to_lowercase(p[Len(p)])
    IN  IF \E i \in 1..(Len(l) - 3) :
              SubSeq(l, i, i + 3) \in { <<"i","c","o","n">>, <<"l","o","g","o">> }
        THEN 10 ELSE 1

\* C11: discover_icon returns an icon file (.png, .svg, .ico in any case, within
\* depth 3) of the highest score and, among those, of the least depth; it
\* returns None exactly when there is no such file, and never an error.
C11_IconSelection ==
    pc = "icon_done" =>
        /\ err = ""
        /\ icon = <<>> <=> IconFiles = {}
        /\ icon # <<>> =>
             /\ icon[1] \in IconFiles
             /\ \A c \in IconFiles :
                  /\ Score(c) <= Score(icon[1])
                  /\ Score(c) = Score(icon[1]) => Depth(icon[1]) <= Depth(c)

\* C11 witness: the score-10 file at depth 3 was chosen over a score-1 file at
\* depth 1 that the walk met first
C11_Witness ==
    /\ pc = "icon_done" /\ icon # <<>>
    /\ Depth(icon[1]) = 3 /\ Score(icon[1]) = 10
    /\ \E c \in IconFiles : Depth(c) = 1 /\ Score(c) = 1 /\ WalkPos(c) < WalkPos(icon[1])

\* C11 further witnesses: logo.png chosen over sp.png at the same depth, and
\* None for a tree whose only icon lies four levels down
C11_WitnessLogo ==
    /\ pc = "icon_done" /\ icon = <<join(Root, <<"l","o","g","o",".","p","n","g">>)>>
    /\ \E c \in IconFiles : Depth(c) = 1 /\ Score(c) = 1 /\ WalkPos(c) < WalkPos(icon[1])
C11_WitnessNone ==
    /\ pc = "icon_done" /\ icon = <<>>
    /\ \E p \in DOMAIN fs : Len(p) - Len(Root) = 4 /\ IconName(p[Len(p)])

----------------------------------------------------------------------------
(* Filesystem mutations: fs::create_dir_all, fs::remove_dir_all, fs::write, *)
(* fs::copy, fs::set_permissions                                            *)

Prefixes(p) == {SubSeq(p, 1, k) : k \in 1..Len(p)}

\* fs::create_dir_all fails when a component exists and is no directory, or
\* when a missing component's parent may not be written
create_dir_all_ok(f, p) ==
    \A q \in Prefixes(p) :
        /\ exists(f, q) => is_dir(f, q)
        /\ (~exists(f, q) /\ Len(q) > 1 /\ exists(f, parent(q))) => f[parent(q)].writable
create_dir_all(f, p) ==
    [q \in DOMAIN f \cup Prefixes(p) |-> IF q \in DOMAIN f THEN f[q] ELSE DirEntry]

\* fs::remove_dir_all fails on a path that is no directory
remove_dir_all_ok(f, p) == is_dir(f, p)
remove_dir_all(f, p) == [q \in {r \in DOMAIN f : ~IsPrefix(p, r)} |-> f[q]]

\* fs::write fails when the parent is no directory, when the path is a
\* directory, when an existing file may not be written, or when the file is
\* missing and the directory may not be written
write_ok(f, p) ==
    /\ is_dir(f, parent(p))
    /\ IF exists(f, p) THEN is_file(f, p) /\ f[p].writable ELSE f[parent(p)].writable

\* fs::write and fs::copy: the file is created or replaced
write(f, p, entry) == [q \in DOMAIN f \cup {p} |-> IF q = p THEN entry ELSE f[q]]

\* the entries of `payload` (paths relative to dir) added below dir
unpack(f, dir, payload) ==
    [q \in DOMAIN f \cup {dir \o pr[1] : pr \in payload} |->
        IF \E pr \in payload : dir \o pr[1] = q
        THEN (CHOOSE pr \in payload : dir \o pr[1] = q)[2]
        ELSE f[q]]

----------------------------------------------------------------------------
(* Archive Extractor: extract_archive and flatten_if_needed                *)
(* (installation.rs:9-92, 129-142; main.rs:192-296)                        *)

\* installation.rs:129-142 descending while a single directory is found
RECURSIVE flatten_if_needed_mut(_, _)
flatten_if_needed_mut(f, dir) ==
    IF read_dir_ok(f, dir) /\ Cardinality(Children(f, dir)) = 1
       /\ \A e \in Children(f, dir) : is_dir(f, e)
    THEN flatten_if_needed_mut(f, CHOOSE e \in Children(f, dir) : TRUE)
    ELSE dir

\* installation.rs:129-142 returning dir whatever it holds
flatten_if_needed_raw(f, dir) == dir

\* installation.rs:129-142: the single inner directory, or dir itself
flatten_if_needed(f, dir) ==
    IF ~read_dir_ok(f, dir) THEN dir
    ELSE LET entries == Children(f, dir)
         IN  IF Cardinality(entries) = 1 /\ \A e \in entries : is_dir(f, e)
             THEN CHOOSE e \in entries : TRUE
             ELSE dir

\* installation.rs:26 taking only an explicit n for a refusal
declined_mut(confirm) == to_lowercase(trim(confirm)) = <<"n">>

\* installation.rs:26: confirm.trim().to_lowercase() != "y"
declined(confirm) == to_lowercase(trim(confirm)) # <<"y">>

\* installation.rs:31 without the dry-run test
removes_existing_mut(dry) == TRUE

\* installation.rs:31: the existing directory is removed unless dry_run
removes_existing(dry) == ~dry

dot_zip == <<".","z","i","p">>

\* installation.rs:56-74 running tar on every archive
tool_for_mut(archive_path) == "tar"

\* installation.rs:56-74: unzip for a path ending in .zip, tar otherwise
tool_for(archive_path) ==
    IF ends_with(to_string_lossy(archive_path), dot_zip) THEN "unzip" ELSE "tar"

\* the lines the operator may type at the overwrite prompt (<<>>: end of input)
OverwriteLines ==
    { <<>>, <<"y","\n">>, <<" ","Y"," ","\n">>, <<"n","\n">>, <<"y","e","s","\n">> }

n_in  == <<"i","n">>
n_in2 == <<"i","n","2">>

\* what an archive may unpack to, as <<path below the target, entry>>
Payloads ==
    { {},                                                            \* nothing
      {<<<<n_gg>>, ElfEntry>>},                                      \* one file
      {<<<<n_run_sh>>, FileEntry>>, <<<<n_gg>>, ElfEntry>>},         \* two files
      {<<<<n_in>>, DirEntry>>, <<<<n_in, n_gg>>, ElfEntry>>},        \* a wrapper
      {<<<<n_in>>, DirEntry>>, <<<<n_in, n_in2>>, DirEntry>>,
       <<<<n_in, n_in2, n_gg>>, ElfEntry>>} }                        \* two wrappers

\* installation.rs:10-22 (the head of extract_archive, up to the prompt)
ExtractBegin ==
    /\ pc = "extract"
    /\ LET td == target_dir_of(input_path[1], target_parent[1])
       IN  /\ target_dir' = <<td>>
           /\ pc' = IF exists(fs, td) THEN "overwrite_prompt" ELSE "extract_create"
    /\ UNCHANGED <<revision, dry_run, input, fs, fs0, err, input_path, target_parent>>
    /\ UNCHANGED <<resolve_vars, discover_vars, run_vars>>
    /\ UNCHANGED <<icon, candidates, aux_vars>>

\* installation.rs:24-36: the answer to the overwrite prompt
ExtractOverwrite ==
    /\ pc = "overwrite_prompt"
    /\ \E confirm \in OverwriteLines :
         /\ prompts' = [prompts EXCEPT !.overwrite = Append(@, confirm)]
         /\ IF declined(confirm)
            THEN /\ game_dir' = <<flatten_if_needed(fs, target_dir[1])>>
                 /\ pc' = "discover"
                 /\ UNCHANGED <<fs, err>>
            ELSE IF removes_existing(dry_run)
            THEN IF remove_dir_all_ok(fs, target_dir[1])
                 THEN /\ fs' = remove_dir_all(fs, target_dir[1])
                      /\ pc' = "extract_create"
                      /\ UNCHANGED <<game_dir, err>>
                 ELSE /\ err' = "Io"
                      /\ pc' = "failed"
                      /\ UNCHANGED <<game_dir, fs>>
            ELSE /\ pc' = "extract_create"
                 /\ UNCHANGED <<game_dir, fs, err>>
    /\ UNCHANGED <<revision, dry_run, input, fs0, install_vars, matches, resolved, scans,
                   walk, executable, run_vars>>
    /\ UNCHANGED <<icon, candidates, aux_vars>>

\* installation.rs:38-45: the target is created, or the dry run returns it
ExtractCreate ==
    /\ pc = "extract_create"
    /\ IF dry_run
       THEN /\ game_dir' = target_dir
            /\ pc' = "discover"
            /\ UNCHANGED <<fs, err>>
       ELSE IF create_dir_all_ok(fs, target_dir[1])
       THEN /\ fs' = create_dir_all(fs, target_dir[1])
            /\ pc' = "extract_tool"
            /\ UNCHANGED <<game_dir, err>>
       ELSE /\ err' = "Io"
            /\ pc' = "failed"
            /\ UNCHANGED <<game_dir, fs>>
    /\ UNCHANGED <<revision, dry_run, input, fs0, install_vars, resolve_vars,
                   walk, executable, run_vars>>
    /\ UNCHANGED <<icon, candidates, aux_vars>>

\* installation.rs:47-91: the tool runs to its end; what it wrote stays
ExtractTool ==
    /\ pc = "extract_tool"
    /\ \E payload \in Payloads, status \in {0, 2} :
         /\ tools' = Append(tools, [tool |-> tool_for(input_path[1]), status |-> status,
                                    wrote |-> {target_dir[1] \o pr[1] : pr \in payload}])
         /\ fs' = unpack(fs, target_dir[1], payload)
         /\ IF status = 0
            THEN /\ game_dir' = <<flatten_if_needed(fs', target_dir[1])>>
                 /\ pc' = "discover"
                 /\ err' = err
            ELSE /\ err' = "ExtractionFailed"
                 /\ pc' = "failed"
                 /\ game_dir' = game_dir
    /\ UNCHANGED <<revision, dry_run, input, fs0, install_vars, resolve_vars,
                   walk, executable, fs_in, created_files>>
    /\ UNCHANGED <<icon, candidates, aux_vars>>

\* installation.rs:59-73: the tool cannot be started (it is not installed)
ExtractToolMissing ==
    /\ pc = "extract_tool"
    /\ err' = "Io"
    /\ pc' = "failed"
    /\ UNCHANGED <<revision, dry_run, input, fs, fs0, install_vars, resolve_vars,
                   discover_vars, run_vars>>
    /\ UNCHANGED <<icon, candidates, aux_vars>>

----------------------------------------------------------------------------
(* SpecExtract: extract_archive on its own, run again after a failure       *)

\* extract_archive is run again at most this many times
MaxReruns == 1

\* the target directory of the archives f.tar.gz and f.zip
TargetF == join(InstallDir, n_f)

\* the target before the first run: absent, or there in one of two shapes
ExtractInstalled ==
    { {<<InstallDir, DirEntry>>},
      {<<InstallDir, DirEntry>>, <<TargetF, DirEntry>>, <<join(TargetF, n_gg), ElfEntry>>,
       <<join(TargetF, n_run_sh), FileEntry>>},
      {<<InstallDir, DirEntry>>, <<TargetF, DirEntry>>, <<join(TargetF, n_in), DirEntry>>,
       <<TargetF \o <<n_in, n_gg>>, ElfEntry>>} }

ExtractArchives ==
    { join(SearchDir, <<"f">> \o dot_tar \o <<".","g","z">>), join(SearchDir, <<"f">> \o dot_zip) }

\* main.rs:137 in a new process: the operator runs the same installation again
\* after a failure
ExtractAgain ==
    /\ pc = "failed"
    /\ Len(runs) < MaxReruns
    /\ runs' = Append(runs, [err |-> err, tools |-> tools, target_dir |-> target_dir, fs |-> fs])
    /\ pc' = "extract"
    /\ err' = ""
    /\ prompts' = NoPrompts
    /\ tools' = <<>>
    /\ fs_in' = fs
    /\ target_dir' = <<>>
    /\ \E d \in BOOLEAN : dry_run' = d
    /\ UNCHANGED <<revision, input, fs, fs0, input_path, target_parent, matches, resolved,
                   scans, discover_vars, created_files, icon, candidates, sniffed, calls>>

InitExtract ==
    /\ pc = "extract"
    /\ revision \in {"main", "modular"}
    /\ dry_run \in BOOLEAN
    /\ \E a \in ExtractArchives : input = a /\ input_path = <<a>> /\ resolved = <<a>>
    /\ fs \in { MkFs({<<SearchDir, DirEntry>>} \cup {<<a, FileEntry>> : a \in ExtractArchives} \cup i) :
                  i \in ExtractInstalled }
    /\ fs0 = fs /\ fs_in = fs
    /\ matches = <<>> /\ err = "" /\ prompts = NoPrompts /\ scans = 0
    /\ target_parent = <<InstallDir>> /\ target_dir = <<>>
    /\ game_dir = <<>> /\ walk = <<>> /\ executable = <<>>
    /\ tools = <<>> /\ created_files = <<>>
    /\ icon = <<>> /\ candidates = <<>> /\ sniffed = <<>> /\ calls = <<>> /\ runs = <<>>

NextExtract ==
    \/ ExtractBegin \/ ExtractOverwrite \/ ExtractCreate \/ ExtractTool \/ ExtractToolMissing
    \/ ExtractAgain

SpecExtract == InitExtract /\ [][NextExtract]_vars

----------------------------------------------------------------------------
(* AppImage installer: install_appimage (installation.rs:94-127)           *)

\* installation.rs:95-101 (up to the prompt)
AppImageBegin ==
    /\ pc = "appimage"
    /\ LET td == join(target_parent[1], file_stem(file_name(input_path[1])))
       IN  /\ target_dir' = <<td>>
           /\ pc' = IF exists(fs, td) THEN "appimage_prompt" ELSE "appimage_copy"
    /\ UNCHANGED <<revision, dry_run, input, fs, fs0, err, input_path, target_parent>>
    /\ UNCHANGED <<resolve_vars, discover_vars, run_vars>>
    /\ UNCHANGED <<icon, candidates, aux_vars>>

\* installation.rs:103-113: the answer to the overwrite prompt
AppImageOverwrite ==
    /\ pc = "appimage_prompt"
    /\ \E confirm \in OverwriteLines :
         /\ prompts' = [prompts EXCEPT !.overwrite = Append(@, confirm)]
         /\ IF declined(confirm)
            THEN /\ game_dir' = target_dir
                 /\ pc' = "discover"
                 /\ UNCHANGED <<fs, err>>
            ELSE IF removes_existing(dry_run)
            THEN IF remove_dir_all_ok(fs, target_dir[1])
                 THEN /\ fs' = remove_dir_all(fs, target_dir[1])
                      /\ pc' = "appimage_copy"
                      /\ UNCHANGED <<game_dir, err>>
                 ELSE /\ err' = "Io"
                      /\ pc' = "failed"
                      /\ UNCHANGED <<game_dir, fs>>
            ELSE /\ pc' = "appimage_copy"
                 /\ UNCHANGED <<game_dir, fs, err>>
    /\ UNCHANGED <<revision, dry_run, input, fs0, install_vars, matches, resolved, scans,
                   walk, executable, run_vars>>
    /\ UNCHANGED <<icon, candidates, aux_vars>>

\* installation.rs:115-126: the AppImage is copied into the target
AppImageCopy ==
    /\ pc = "appimage_copy"
    /\ IF dry_run
       THEN /\ game_dir' = target_dir
            /\ pc' = "discover"
            /\ UNCHANGED <<fs, err>>
       ELSE IF create_dir_all_ok(fs, target_dir[1])
       THEN /\ fs' = write(create_dir_all(fs, target_dir[1]),
                           join(target_dir[1], file_name(input_path[1])),
                           fs[input_path[1]])
            /\ game_dir' = target_dir
            /\ pc' = "discover"
            /\ err' = err
       ELSE /\ err' = "Io"
            /\ pc' = "failed"
            /\ UNCHANGED <<game_dir, fs>>
    /\ UNCHANGED <<revision, dry_run, input, fs0, install_vars, resolve_vars,
                   walk, executable, run_vars>>
    /\ UNCHANGED <<icon, candidates, aux_vars>>
----------------------------------------------------------------------------
(* Launcher Artifact Generator: format_game_name, generate_desktop_entry   *)
(* (utils.rs:6-18, 90-130; main.rs:298-310, 456-498)                       *)

ToUpperChar(c) ==
    IF \E i \in 1..Len(Lower) : Lower[i] = c
    THEN Upper[CHOOSE i \in 1..Len(Lower) : Lower[i] = c]
    ELSE c

\* str::replace of one character by another
replace_char(s, from, to) == [i \in 1..Len(s) |-> IF s[i] = from THEN to ELSE s[i]]

\* str::split_whitespace: the maximal runs of non-blank characters
RECURSIVE split_whitespace(_)
split_whitespace(s) ==
    LET t == trim(s)
    IN  IF t = <<>> THEN <<>>
        ELSE LET blanks == {i \in 1..Len(t) : t[i] \in Whitespace}
             IN  IF blanks = {} THEN <<t>>
                 ELSE LET b == CHOOSE i \in blanks : \A j \in blanks : i <= j
                      IN  <<SubSeq(t, 1, b - 1)>> \o split_whitespace(SubSeq(t, b, Len(t)))

\* utils.rs:9-16: the first letter in capitals, the rest in small letters
capitalize(word) ==
    IF word = <<>> THEN <<>>
    ELSE <<ToUpperChar(word[1])>> \o to_lowercase(Tail(word))

RECURSIVE join_words(_)
join_words(ws) ==
    IF ws = <<>> THEN <<>>
    ELSE IF Len(ws) = 1 THEN capitalize(ws[1])
    ELSE capitalize(ws[1]) \o <<" ">> \o join_words(Tail(ws))

\* utils.rs:6-18: format_game_name
format_game_name(name) == join_words(split_whitespace(replace_char(name, "_", " ")))

dot_desktop == <<".","d","e","s","k","t","o","p">>

\* utils.rs:110 without the lowercasing
desktop_file_name_mut(game_name) == replace_char(game_name, " ", "-") \o dot_desktop

\* utils.rs:110: the artifact's file name
desktop_file_name(game_name) ==
    replace_char(to_lowercase(game_name), " ", "-") \o dot_desktop

n_home    == <<"h">>
n_local   == <<".","l","o","c","a","l">>
n_share   == <<"s","h","a","r","e">>
n_applications == <<"a","p","p","s">>
n_Desktop == <<"D","e","s","k","t","o","p">>
n_config  == <<".","c","o","n","f","i","g">>
n_spawn   == <<"s","p","a","w","n">>

\* dirs_next::home_dir() and the directories below it
HomeDir    == <<n_home>>
AppDir     == <<n_home, n_local, n_share, n_applications>>
DesktopDir == <<n_home, n_Desktop>>
ConfigDir  == <<n_home, n_config, n_spawn>>

\* utils.rs:94-107: the text of the artifact
desktop_content(dir, exe, game_name, icon_path) ==
    [Type |-> "Application", Name |-> game_name, Exec |-> exe, Path |-> to_string_lossy(dir),
     Terminal |-> FALSE, Categories |-> "Game;", Icon |-> icon_path]

ArtifactEntry(content) ==
    [kind |-> "file", magic |-> <<>>, exec |-> FALSE, content |-> <<content>>,
     readable |-> TRUE, writable |-> TRUE]

----------------------------------------------------------------------------
(* main (main.rs:81-190)                                                   *)

n_would_be_executable ==
    <<"w","o","u","l","d","_","b","e","_","e","x","e","c","u","t","a","b","l","e">>

\* PathBuf::from of a typed line: the components between the slashes
RECURSIVE path_from(_)
path_from(str) ==
    LET slashes == {i \in 1..Len(str) : str[i] = "/"}
    IN  IF str = <<>> THEN <<>>
        ELSE IF slashes = {} THEN <<str>>
        ELSE LET k    == CHOOSE i \in slashes : \A j \in slashes : i <= j
                 rest == path_from(SubSeq(str, k + 1, Len(str)))
             IN  IF k = 1 THEN rest ELSE <<SubSeq(str, 1, k - 1)>> \o rest

\* the lines the operator may type when asked for the install location
LocationLines == { <<"\n">>, <<"/","a","l","t","\n">> }

\* main.rs:54-73, 83: load_config; get_config_path creates the config directory
LoadConfig ==
    /\ pc = "start"
    /\ fs' = IF exists(fs, ConfigDir) THEN fs ELSE create_dir_all(fs, ConfigDir)
    /\ pc' = "resolve"
    /\ UNCHANGED <<revision, dry_run, input, fs0, err, install_vars, resolve_vars,
                   discover_vars, run_vars>>
    /\ UNCHANGED <<icon, candidates, aux_vars>>

\* main.rs:109-118, 138-139: the resolved path is canonical and exists; a
\* directory is the game directory, a file is an archive to install
Canonicalize ==
    /\ pc = "resolved"
    /\ input_path' = resolved
    /\ fs_in' = fs
    /\ IF is_file(fs, resolved[1])
       THEN /\ pc' = "location_prompt"
            /\ game_dir' = game_dir
       ELSE /\ pc' = "discover"
            /\ game_dir' = resolved
    /\ UNCHANGED <<revision, dry_run, input, fs, fs0, err, target_parent, target_dir,
                   resolve_vars, walk, executable, tools, created_files>>
    /\ UNCHANGED <<icon, candidates, aux_vars>>

\* the installer the archive is handed to: an AppImage goes to install_appimage
\* in the modular revision; main.rs knows extract_archive only
is_appimage(rev, path) == rev = "modular" /\ ends_with(file_name(path), dot_AppImage)

\* main.rs:127-135 creating the install parent whatever the mode
creates_parent_mut(dry, f, dir) == ~exists(f, dir)

\* main.rs:133: !args.dry_run && !target_parent.exists()
creates_parent(dry, f, dir) == ~dry /\ ~exists(f, dir)

\* main.rs:120-137: the install location is asked for and created
ChooseLocation ==
    /\ pc = "location_prompt"
    /\ \E line \in LocationLines :
         LET input_dir == trim(line)
             tp == IF input_dir = <<>> THEN InstallDir ELSE path_from(input_dir)
         IN  /\ prompts' = [prompts EXCEPT !.location = Append(@, line)]
             /\ target_parent' = <<tp>>
             /\ IF creates_parent(dry_run, fs, tp)
                THEN /\ fs' = create_dir_all(fs, tp)
                ELSE /\ fs' = fs
             /\ pc' = IF is_appimage(revision, input_path[1]) THEN "appimage" ELSE "extract"
    /\ UNCHANGED <<revision, dry_run, input, fs0, err, input_path, target_dir,
                   matches, resolved, scans, discover_vars, run_vars>>
    /\ UNCHANGED <<icon, candidates, aux_vars>>

\* main.rs:142-144: nothing to walk, a placeholder stands for the executable
DryRunPlaceholder ==
    /\ pc = "discover"
    /\ skips_discovery(dry_run, fs, game_dir[1])
    /\ executable' = <<<<n_would_be_executable>>>>
    /\ pc' = "discovered"
    /\ UNCHANGED <<revision, dry_run, input, fs, fs0, err, install_vars, resolve_vars,
                   game_dir, walk, run_vars>>
    /\ UNCHANGED <<icon, candidates, aux_vars>>

\* main.rs:160 without the dry-run test
sets_permission_mut(dry) == TRUE

\* main.rs:160: if !args.dry_run
sets_permission(dry) == ~dry

\* main.rs:160-165 and set_executable_permission (utils.rs:20-31): mode | 0o111
SetPermission ==
    /\ pc = "discovered"
    /\ IF sets_permission(dry_run)
       THEN IF exists(fs, executable[1])
            THEN /\ fs' = [fs EXCEPT ![executable[1]].exec = TRUE]
                 /\ pc' = "generate"
                 /\ err' = err
            ELSE /\ err' = "Io"
                 /\ pc' = "failed"
                 /\ fs' = fs
       ELSE /\ pc' = "generate"
            /\ UNCHANGED <<fs, err>>
    /\ UNCHANGED <<revision, dry_run, input, fs0, install_vars, resolve_vars,
                   discover_vars, run_vars>>
    /\ UNCHANGED <<icon, candidates, aux_vars>>

\* main.rs:167-170: the display name, from the game directory's name
game_name_of(dir) == format_game_name(file_name(dir))

\* utils.rs:122 writing the desktop copy whether or not the directory exists
writes_desktop_mut(f) == TRUE

\* utils.rs:122: desktop_dir.exists()
writes_desktop(f) == exists(f, DesktopDir)

\* utils.rs:109-129: the registry copy is written first (its directory is
\* created when absent), then the desktop copy when the Desktop directory
\* exists; the first failure returns the error (ok = FALSE) and leaves what was
\* written. `wrote` is history: the files this call wrote.
generate_desktop_entry(f, dir, exe, game_name, icon_path) ==
    LET entry        == ArtifactEntry(desktop_content(dir, exe, game_name, icon_path))
        app_path     == join(AppDir, desktop_file_name(game_name))
        desktop_path == join(DesktopDir, desktop_file_name(game_name))
        made         == exists(f, AppDir) \/ create_dir_all_ok(f, AppDir)
        f1           == IF ~exists(f, AppDir) /\ made THEN create_dir_all(f, AppDir) ELSE f
        app_ok       == made /\ write_ok(f1, app_path)
        f2           == IF app_ok THEN write(f1, app_path, entry) ELSE f1
        desktop      == app_ok /\ writes_desktop(f2)
        desktop_ok   == desktop /\ write_ok(f2, desktop_path)
        f3           == IF desktop_ok THEN write(f2, desktop_path, entry) ELSE f2
        ok           == app_ok /\ (desktop => desktop_ok)
    IN  [fs |-> f3,
         ok |-> ok,
         created |-> IF ~ok THEN <<>>
                     ELSE <<app_path>> \o (IF desktop THEN <<desktop_path>> ELSE <<>>),
         wrote |-> (IF app_ok THEN {app_path} ELSE {})
                   \cup (IF desktop_ok THEN {desktop_path} ELSE {})]

\* main.rs:172 without the dry-run test
writes_shortcuts_mut(dry) == TRUE

\* main.rs:172: if !args.dry_run
writes_shortcuts(dry) == ~dry

\* main.rs:167-189: the shortcuts are written
Generate ==
    /\ pc = "generate"
    /\ IF writes_shortcuts(dry_run)
       THEN LET r == generate_desktop_entry(fs, game_dir[1], executable[1],
                                            game_name_of(game_dir[1]), icon)
            IN  /\ fs' = r.fs
                /\ created_files' = r.created
                /\ IF r.ok THEN pc' = "done" /\ err' = err
                           ELSE pc' = "failed" /\ err' = "Io"
       ELSE /\ pc' = "done"
            /\ UNCHANGED <<fs, created_files, err>>
    /\ UNCHANGED <<revision, dry_run, input, fs0, install_vars, resolve_vars,
                   discover_vars, fs_in, tools>>
    /\ UNCHANGED <<icon, candidates, aux_vars>>

----------------------------------------------------------------------------
(* SpecGenerate: generate_desktop_entry on its own, called several times    *)

\* generate_desktop_entry is called at most this many times
MaxCalls == 2

s_My_Game == <<"M","y"," ","G","a","m","e">>
s_my_game == <<"m","y","-","g","a","m","e">>
s_Other   == <<"O","t","h","e","r">>
s_Old     == <<"O","l","d">>

\* the display names, executables and icons of the calls
GameNames     == {s_My_Game, s_my_game, s_Other}
GameExes      == {GameDir \o <<n_gg>>, GameDir \o <<n_run_sh>>}
GameIcons     == {<<>>, <<GameDir \o <<n_logo_png>>>>}

\* an artifact left by an earlier installation
OldArtifact == ArtifactEntry(desktop_content(GameDir, GameDir \o <<n_q>>, s_Old, <<>>))

\* the registry directory before the calls: absent with all its ancestors,
\* there, there with an artifact of the same file name, there but not writable,
\* or unreachable because .local is a file
RegistryStates ==
    LET chain == {<<SubSeq(AppDir, 1, k), DirEntry>> : k \in 2..Len(AppDir)}
    IN  { {},
          chain,
          chain \cup {<<join(AppDir, desktop_file_name(s_my_game)), OldArtifact>>},
          (chain \ {<<AppDir, DirEntry>>}) \cup {<<AppDir, [DirEntry EXCEPT !.writable = FALSE]>>},
          {<<SubSeq(AppDir, 1, 2), FileEntry>>} }

\* the Desktop directory before the calls: absent, there, there but not
\* writable, or a file of that name
DesktopStates ==
    { {},
      {<<DesktopDir, DirEntry>>},
      {<<DesktopDir, [DirEntry EXCEPT !.writable = FALSE]>>},
      {<<DesktopDir, FileEntry>>} }

GenerateHomes ==
    { MkFs({<<HomeDir, DirEntry>>} \cup r \cup d) : r \in RegistryStates, d \in DesktopStates }

\* utils.rs:90-130: one call of generate_desktop_entry
GenerateCall ==
    /\ pc = "generate_call"
    /\ Len(calls) < MaxCalls
    /\ \E name \in GameNames, exe \in GameExes, ic \in GameIcons :
         LET r == generate_desktop_entry(fs, GameDir, exe, name, ic)
         IN  /\ fs' = r.fs
             /\ created_files' = r.created
             /\ err' = IF r.ok THEN "" ELSE "Io"
             /\ calls' = Append(calls, [game_name |-> name,
                                        content |-> desktop_content(GameDir, exe, name, ic),
                                        ok |-> r.ok, created |-> r.created, wrote |-> r.wrote])
    /\ pc' = pc
    /\ UNCHANGED <<revision, dry_run, input, fs0, resolve_vars, install_vars, discover_vars,
                   fs_in, tools, icon, candidates, sniffed, runs>>

InitGenerate ==
    /\ pc = "generate_call"
    /\ revision \in {"main", "modular"}
    /\ dry_run = FALSE
    /\ fs \in GenerateHomes
    /\ fs0 = fs /\ fs_in = fs
    /\ input = GameDir /\ input_path = <<GameDir>> /\ resolved = <<GameDir>>
    /\ matches = <<>> /\ err = "" /\ prompts = NoPrompts /\ scans = 0
    /\ target_parent = <<>> /\ target_dir = <<>>
    /\ game_dir = <<GameDir>> /\ walk = <<>> /\ executable = <<>>
    /\ tools = <<>> /\ created_files = <<>>
    /\ icon = <<>> /\ candidates = <<>> /\ sniffed = <<>> /\ calls = <<>> /\ runs = <<>>

NextGenerate == GenerateCall

SpecGenerate == InitGenerate /\ [][NextGenerate]_vars

----------------------------------------------------------------------------
(* Spec: main() from start to end                                          *)

n_f_tar_gz == <<"f">> \o dot_tar \o <<".","g","z">>
n_f_zip    == <<"f">> \o dot_zip
n_fd       == <<"f","d">>

\* the search directory: two archives of the same game, an AppImage, and a
\* directory holding an unpacked game
Downloads ==
    { <<SearchDir, DirEntry>>,
      <<join(SearchDir, n_f_tar_gz), FileEntry>>,
      <<join(SearchDir, n_f_zip), FileEntry>>,
      <<join(SearchDir, n_s_AppImage), ElfEntry>>,
      <<join(SearchDir, n_fd), DirEntry>>,
      <<<<n_dl, n_fd, n_gg>>, ElfEntry>> }

\* the install directory before the run: absent, empty, or holding a target f
\* from an earlier run (in several shapes), or a target s
Installed ==
    { {},
      {<<InstallDir, DirEntry>>},
      {<<InstallDir, DirEntry>>, <<TargetF, DirEntry>>},
      {<<InstallDir, DirEntry>>, <<TargetF, FileEntry>>},
      {<<InstallDir, DirEntry>>, <<TargetF, DirEntry>>, <<join(TargetF, n_gg), ElfEntry>>},
      {<<InstallDir, DirEntry>>, <<TargetF, DirEntry>>, <<join(TargetF, n_gg), ElfEntry>>,
       <<join(TargetF, n_run_sh), FileEntry>>},
      {<<InstallDir, DirEntry>>, <<TargetF, DirEntry>>, <<join(TargetF, n_in), DirEntry>>,
       <<TargetF \o <<n_in, n_gg>>, ElfEntry>>},
      {<<InstallDir, DirEntry>>, <<TargetF, DirEntry>>, <<join(TargetF, n_in), DirEntry>>,
       <<TargetF \o <<n_in, n_in2>>, DirEntry>>, <<TargetF \o <<n_in, n_in2, n_gg>>, ElfEntry>>},
      {<<InstallDir, DirEntry>>, <<join(InstallDir, <<"s">>), DirEntry>>,
       <<InstallDir \o <<<<"s">>, n_s_AppImage>>, ElfEntry>>} }

\* the home directory: with or without the Desktop and the config directory
Homes ==
    { {<<HomeDir, DirEntry>>} \cup d \cup c :
        d \in { {}, {<<DesktopDir, DirEntry>>} },
        c \in { {}, {<<SubSeq(ConfigDir, 1, 2), DirEntry>>, <<ConfigDir, DirEntry>>} } }

\* args.path: an archive by its path, a directory by its path, and partial
\* names with one match, several matches and none
Inputs ==
    { join(SearchDir, n_f_tar_gz), join(SearchDir, n_fd), join(SearchDir, n_s_AppImage),
      <<<<"z","i","p">>>>, <<<<"F">>>>, <<<<"x">>>> }

Init ==
    /\ pc = "start"
    /\ revision \in {"main", "modular"}
    /\ dry_run \in BOOLEAN
    /\ input \in Inputs
    /\ fs \in { MkFs(Downloads \cup i \cup h) : i \in Installed, h \in Homes }
    /\ fs0 = fs
    /\ matches = <<>> /\ resolved = <<>> /\ err = "" /\ prompts = NoPrompts /\ scans = 0
    /\ input_path = <<>> /\ target_parent = <<>> /\ target_dir = <<>>
    /\ game_dir = <<>> /\ walk = <<>> /\ executable = <<>>
    /\ fs_in = fs /\ tools = <<>> /\ created_files = <<>>
    /\ icon = <<>> /\ candidates = <<>> /\ sniffed = <<>> /\ calls = <<>> /\ runs = <<>>

Next ==
    \/ LoadConfig
    \/ ResolveExisting \/ ResolveScan \/ ResolveChoice
    \/ Canonicalize
    \/ ChooseLocation
    \/ ExtractBegin \/ ExtractOverwrite \/ ExtractCreate \/ ExtractTool \/ ExtractToolMissing
    \/ AppImageBegin \/ AppImageOverwrite \/ AppImageCopy
    \/ DryRunPlaceholder \/ DiscoverExecutable \/ DiscoverExecutableMain
    \/ SetPermission
    \/ Generate

Spec == Init /\ [][Next]_vars

----------------------------------------------------------------------------
(* Properties of the pipeline                                              *)

\* main has handed control to an installer, or to discovery
PastResolve == input_path # <<>>

\* the installer run is extract_archive (and not install_appimage)
ByExtractArchive == target_dir # <<>> /\ ~is_appimage(revision, input_path[1])

\* the installer is still running
InstallerRunning ==
    pc \in {"overwrite_prompt", "extract_create", "extract_tool", "appimage_prompt", "appimage_copy"}

\* the overwrite prompt was shown, and what was typed
Asked == prompts.overwrite # <<>>
Confirm == prompts.overwrite[1]
\* the answer is y once blanks are dropped and capitals lowered
SaidYes == to_lowercase(trim(Confirm)) = <<"y">>

\* the paths of `f` at or below p
Below(f, p) == {q \in DOMAIN f : IsPrefix(p, q)}

\* the inner directory when dir holds exactly one entry and that is a
\* directory, else dir
OneLevelDown(f, dir) ==
    LET kids == {q \in DOMAIN f : Len(q) = Len(dir) + 1 /\ SubSeq(q, 1, Len(dir)) = dir}
    IN  IF Cardinality(kids) = 1 /\ \A k \in kids : f[k].kind = "dir"
        THEN CHOOSE k \in kids : TRUE
        ELSE dir

\* C1: under dry-run, the installer (extract_archive or install_appimage) and
\* every later stage leave the filesystem as it was when the installer was
\* entered: no install parent, no target, no removal, no permission change, no
\* artifact, no tool run; and the installer returns a path, never an error.
C1_DryRunNoMutation ==
    dry_run =>
        /\ PastResolve => fs = fs_in
        /\ tools = <<>> /\ created_files = <<>>
        /\ err \notin {"Io", "ExtractionFailed"}
        /\ (target_dir # <<>> /\ ~InstallerRunning) =>
              /\ game_dir # <<>>
              /\ game_dir[1] \in {target_dir[1], OneLevelDown(fs_in, target_dir[1])}

\* C1 witness: a dry run went to its end although the install parent is absent
C1_Witness ==
    /\ dry_run /\ pc = "done"
    /\ target_dir # <<>> /\ ~exists(fs, target_parent[1]) /\ fs = fs_in

\* C1 second witness: a dry run went to its end after the operator agreed to
\* overwrite the existing target, which is still there
C1_WitnessOverwrite ==
    /\ dry_run /\ pc = "done" /\ Asked /\ SaidYes
    /\ exists(fs, target_dir[1]) /\ fs = fs_in

\* an extraction tool has run and exited with status 0
Extracted == tools # <<>> /\ tools[Len(tools)].status = 0

\* C4: after a successful extraction (dry-run off) the installation directory is
\* the single inner directory when the target holds exactly one entry and that
\* is a directory, and the target itself when it holds no entry, several, or a
\* single file; it is never two or more levels below the target.
C4_OneLevelDeNesting ==
    Extracted =>
        LET td   == target_dir[1]
            kids == Children(fs, td)
        IN  /\ game_dir # <<>>
            /\ (Cardinality(kids) = 1 /\ \A k \in kids : is_dir(fs, k)) => game_dir[1] \in kids
            /\ (Cardinality(kids) # 1 \/ \E k \in kids : is_file(fs, k)) => game_dir[1] = td
            /\ Len(game_dir[1]) <= Len(td) + 1

\* C4 witness: the archive unpacked to a wrapper inside a wrapper, and the
\* installation directory is the outer wrapper
C4_Witness ==
    /\ Extracted /\ Len(game_dir[1]) = Len(target_dir[1]) + 1
    /\ Cardinality(Children(fs, game_dir[1])) = 1
    /\ \A k \in Children(fs, game_dir[1]) : is_dir(fs, k)

\* C4 further witnesses: an empty target, and a target with a single file
C4_WitnessEmpty ==
    Extracted /\ Children(fs, target_dir[1]) = {} /\ game_dir = target_dir
C4_WitnessSingleFile ==
    /\ Extracted /\ Cardinality(Children(fs, target_dir[1])) = 1
    /\ game_dir = target_dir

\* C5: when the target exists and the answer is anything but y (trimmed,
\* lower-cased), extract_archive changes nothing, runs no tool and returns the
\* existing directory de-nested by one level; the existing directory is removed
\* only when the answer is y and dry-run is off, and then before the tool runs.
C5_CollisionPolicy ==
    /\ (ByExtractArchive /\ Asked /\ ~SaidYes) =>
          /\ tools = <<>>
          /\ err \in {"", "NoExecutableFound"}
          /\ game_dir = <<OneLevelDown(fs_in, target_dir[1])>>
          /\ pc = "discover" => fs = fs_in
          /\ DOMAIN fs_in \subseteq DOMAIN fs
    /\ (ByExtractArchive /\ exists(fs_in, target_dir[1]) /\ pc = "overwrite_prompt") =>
          ~Asked /\ fs = fs_in
    /\ (ByExtractArchive /\ exists(fs_in, target_dir[1]) /\ pc # "overwrite_prompt") =>
          /\ Asked
          /\ (Below(fs_in, target_dir[1]) \ DOMAIN fs # {}) => (SaidYes /\ ~dry_run)
          /\ pc = "extract_tool" => Below(fs, target_dir[1]) = {target_dir[1]}
          /\ (SaidYes /\ ~dry_run /\ pc = "extract_create") => ~exists(fs, target_dir[1])

\* C5 witness: the operator typed yes, which is not y; the existing target, a
\* wrapper directory, was kept and its inner directory returned
C5_Witness ==
    /\ ByExtractArchive /\ Asked /\ Confirm = <<"y","e","s","\n">> /\ ~dry_run
    /\ pc = "discover" /\ fs = fs_in
    /\ game_dir # target_dir

\* C5 second witness: the operator typed Y between blanks and the existing
\* target is gone before the tool runs
C5_WitnessRemoved ==
    /\ ByExtractArchive /\ Asked /\ Confirm = <<" ","Y"," ","\n">> /\ ~dry_run
    /\ pc = "extract_create" /\ ~exists(fs, target_dir[1])
    /\ Cardinality(Below(fs_in, target_dir[1])) > 1

\* discover_executable was called and has returned
DiscoveryReturned == walk # <<>> /\ pc # "discover"

\* the execute bits are those the installer left, and no .desktop file exists
\* that did not exist then
NothingInstalled ==
    /\ created_files = <<>>
    /\ \A p \in DOMAIN fs \cap DOMAIN fs_in : fs[p].exec = fs_in[p].exec
    /\ \A p \in DOMAIN fs \ DOMAIN fs_in : fs[p].content = <<>>

\* C14: discover_executable fails with NoExecutableFound exactly when the root
\* has no Tier-1 file as a direct child and no Tier-2 candidate within depth 3
\* (deeper files are never considered); when it fails, main halts: no
\* permission is changed and no launcher artifact is written.
C14_NoExecutableFound ==
    DiscoveryReturned =>
        /\ err = "NoExecutableFound" <=> (Tier1In(fs) = {} /\ StatedTier2In(fs) = {})
        /\ err = "NoExecutableFound" =>
              /\ pc = "failed" /\ executable = <<>>
              /\ NothingInstalled

\* C14 for the modular revision and a root with no ancestor named lib or docs,
\* where it holds
C14_NoExecutableFoundModular ==
    (/\ revision = "modular"
     /\ game_dir # <<>>
     /\ \A k \in 1..Len(Root) : Root[k] \notin { <<"l","i","b">>, <<"d","o","c","s">> })
        => C14_NoExecutableFound

\* the modular revision failed on a tree whose only ELF lies four levels down
C14_WitnessModularDeep ==
    /\ revision = "modular" /\ pc = "failed" /\ err = "NoExecutableFound"
    /\ \E p \in DOMAIN fs : IsPrefix(Root, p) /\ Len(p) - Len(Root) = 4 /\ ElfMagicAt(fs, p)

\* extract_archive has just returned a path to main
ExtractReturned == ByExtractArchive /\ pc = "discover"

\* dir holds exactly one entry, and that entry is a directory
SoleSubdirectory(f, dir) ==
    LET kids == {q \in DOMAIN f : Len(q) = Len(dir) + 1 /\ SubSeq(q, 1, Len(dir)) = dir}
    IN  Cardinality(kids) = 1 /\ \A k \in kids : f[k].kind = "dir"

\* C16: whenever extract_archive returns a path, whatever the dry-run flag, the
\* earlier state of the target and the answer to the overwrite prompt, the path
\* is not the raw target directory if that directory then holds exactly one
\* entry and that entry is a directory.
C16_InstallDirInvariant ==
    ExtractReturned => ~(game_dir = target_dir /\ SoleSubdirectory(fs, target_dir[1]))

\* C16 (as amended): the same, except in a dry run in which the operator
\* answers y to the overwrite prompt: the existing target is then neither
\* removed nor looked into, and the raw target path is returned.
C16_InstallDirInvariantAmended ==
    (ExtractReturned /\ ~(dry_run /\ Asked /\ SaidYes)) =>
        /\ ~(game_dir = target_dir /\ SoleSubdirectory(fs, target_dir[1]))
        /\ SoleSubdirectory(fs, target_dir[1]) =>
              Len(game_dir[1]) = Len(target_dir[1]) + 1 /\ IsPrefix(target_dir[1], game_dir[1])

\* C16 witness: with dry-run off, the operator agreed to overwrite a target that
\* held two files, the archive unpacked to a wrapper, and the wrapper was
\* returned
C16_Witness ==
    /\ ~dry_run /\ ExtractReturned /\ Asked /\ SaidYes /\ Extracted
    /\ Cardinality(Below(fs_in, target_dir[1])) = 3
    /\ SoleSubdirectory(fs, target_dir[1]) /\ game_dir # target_dir

\* C16 second witness: in a dry run the operator declined, and the inner
\* directory of the existing wrapper was returned
C16_WitnessDryRunDeclined ==
    /\ dry_run /\ ExtractReturned /\ Asked /\ ~SaidYes
    /\ SoleSubdirectory(fs, target_dir[1]) /\ game_dir # target_dir

\* the run before this one failed in the extraction tool
AfterExtractionFailure == runs # <<>> /\ runs[Len(runs)].err = "ExtractionFailed"

\* the tool this archive calls for
ToolFor(archive) ==
    LET n == archive[Len(archive)]
    IN  IF Len(n) >= 4 /\ SubSeq(n, Len(n) - 3, Len(n)) = <<".","z","i","p">>
        THEN "unzip" ELSE "tar"

\* C18: a non-dry-run extraction invokes exactly one tool, unzip for a path
\* ending in .zip and tar otherwise; a non-zero exit status fails with
\* ExtractionFailed and returns no path; the target directory and what the tool
\* wrote into it stay, nothing earlier is restored, and the next run on the same
\* archive and parent is at the overwrite prompt before it does anything else.
C18_ExtractionFailure ==
    /\ Len(tools) <= 1
    /\ dry_run => tools = <<>>
    /\ \A i \in 1..Len(tools) : tools[i].tool = ToolFor(input_path[1])
    /\ (pc = "discover" /\ ~dry_run /\ ~(Asked /\ ~SaidYes)) =>
          Len(tools) = 1 /\ tools[1].status = 0
    /\ err = "ExtractionFailed" <=> (tools # <<>> /\ tools[1].status # 0)
    /\ err = "ExtractionFailed" =>
          /\ pc = "failed" /\ game_dir = <<>>
          /\ fs[target_dir[1]].kind = "dir"
          /\ tools[1].wrote \subseteq DOMAIN fs
          /\ (Asked /\ SaidYes) => Below(fs, target_dir[1]) = {target_dir[1]} \cup tools[1].wrote
    /\ (AfterExtractionFailure /\ pc # "extract") =>
          /\ target_dir = runs[Len(runs)].target_dir
          /\ pc = "overwrite_prompt" \/ Asked
          /\ pc = "overwrite_prompt" => (fs = runs[Len(runs)].fs /\ tools = <<>>)

\* C18 witness: unzip failed after the old installation had been removed; the
\* next run found the partly filled target and the operator declined
C18_Witness ==
    /\ AfterExtractionFailure
    /\ runs[1].tools[1].tool = "unzip" /\ runs[1].tools[1].wrote # {}
    /\ Below(runs[1].fs, TargetF) # Below(fs0, TargetF) /\ Below(fs0, TargetF) # {}
    /\ pc = "discover" /\ Asked /\ ~SaidYes /\ fs = runs[1].fs

\* C18 second witness: the target did not exist before the failed run
C18_WitnessFresh ==
    /\ AfterExtractionFailure /\ ~exists(fs0, TargetF)
    /\ pc = "overwrite_prompt"

----------------------------------------------------------------------------
(* Properties of the Launcher Artifact Generator                           *)

\* the application registry and the desktop surface
Registry == <<<<"h">>, <<".","l","o","c","a","l">>, <<"s","h","a","r","e">>, <<"a","p","p","s">>>>
Surface  == <<<<"h">>, <<"D","e","s","k","t","o","p">>>>

\* the artifact's file name: the display name in small letters, every space a
\* hyphen, and .desktop
ArtifactName(display_name) ==
    [i \in 1..Len(display_name) |->
        IF display_name[i] = " " THEN "-" ELSE ToLowerChar(display_name[i])]
    \o <<".","d","e","s","k","t","o","p">>

LastCall == calls[Len(calls)]

\* the paths below home that exist now and did not before the calls
NewPaths == DOMAIN fs \ DOMAIN fs0

\* C12: generate_desktop_entry writes the same content to at most two places:
\* the registry directory, created when absent, and the Desktop directory, only
\* when it already exists; the Desktop directory is never created, and without
\* it the call succeeds with the registry copy alone.
C12_TwoLocations ==
    calls # <<>> =>
        LET name == ArtifactName(LastCall.game_name)
        IN  /\ LastCall.wrote \subseteq {Append(Registry, name), Append(Surface, name)}
            /\ \A p \in LastCall.wrote :
                  p \in DOMAIN fs /\ fs[p].kind = "file" /\ fs[p].content = <<LastCall.content>>
            /\ LastCall.ok => (fs[Registry].kind = "dir" /\ Append(Registry, name) \in LastCall.wrote)
            /\ Surface \in DOMAIN fs <=> Surface \in DOMAIN fs0
            /\ Append(Surface, name) \in LastCall.wrote => fs0[Surface].kind = "dir"
            /\ (LastCall.ok /\ Surface \in DOMAIN fs0) => Append(Surface, name) \in LastCall.wrote
            /\ (Surface \notin DOMAIN fs0 /\ LastCall.wrote # {}) =>
                  LastCall.ok /\ LastCall.created = <<Append(Registry, name)>>

\* C12 witness: neither directory existed; the registry was created and holds
\* the only copy
C12_Witness ==
    /\ calls # <<>> /\ LastCall.ok
    /\ Registry \notin DOMAIN fs0 /\ Surface \notin DOMAIN fs
    /\ LastCall.wrote = {Append(Registry, ArtifactName(LastCall.game_name))}
    /\ fs[Registry].kind = "dir"

\* C12 second witness: both copies were written, with the same content
C12_WitnessBoth ==
    /\ calls # <<>> /\ LastCall.ok /\ Cardinality(LastCall.wrote) = 2

\* the calls that map to the file name n
CallsFor(n) == {k \in 1..Len(calls) : ArtifactName(calls[k].game_name) = n}
LastFor(n) == CHOOSE k \in CallsFor(n) : \A j \in CallsFor(n) : j <= k

\* the file at p exists and its text is exactly `content`
HoldsContent(p, content) == p \in DOMAIN fs /\ fs[p].kind = "file" /\ fs[p].content = <<content>>

AllSucceeded == \A k \in 1..Len(calls) : calls[k].ok

\* C13: the artifact's file name is the display name lower-cased, spaces turned
\* into hyphens, plus .desktop; after any sequence of successful calls each
\* artifact file, in each location, holds the content of the latest call that
\* maps to its name, and nothing else was touched.
C13_LastWriteWins ==
    AllSucceeded =>
        /\ \A k \in 1..Len(calls) :
             LET n == ArtifactName(calls[k].game_name)
             IN  /\ HoldsContent(Append(Registry, n), calls[LastFor(n)].content)
                 /\ Surface \in DOMAIN fs0 =>
                       HoldsContent(Append(Surface, n), calls[LastFor(n)].content)
        /\ \A p \in DOMAIN fs0 :
             (\A k \in 1..Len(calls) : p \notin calls[k].wrote) => (p \in DOMAIN fs /\ fs[p] = fs0[p])
        /\ \A p \in NewPaths :
             \/ \E k \in 1..Len(calls) :
                  p \in {Append(Registry, ArtifactName(calls[k].game_name)),
                         Append(Surface, ArtifactName(calls[k].game_name))}
             \/ IsPrefix(p, Registry)

\* C13 witness: My Game was installed, then my-game with another content; both
\* copies of my-game.desktop hold the second content alone
C13_Witness ==
    /\ Len(calls) = 2 /\ AllSucceeded
    /\ calls[1].game_name # calls[2].game_name
    /\ ArtifactName(calls[1].game_name) = ArtifactName(calls[2].game_name)
    /\ Cardinality(calls[2].wrote) = 2
    /\ \A p \in calls[2].wrote : fs[p].content = <<calls[2].content>>

\* C13 second witness: an artifact of an earlier installation was replaced
C13_WitnessOld ==
    /\ calls # <<>> /\ AllSucceeded
    /\ \E p \in DOMAIN fs0 : fs0[p].content # <<>> /\ fs[p].content = <<LastCall.content>>

Returned_files(c) == {c.created[i] : i \in 1..Len(c.created)}

\* C19: generate_desktop_entry returns the list of the files it wrote, for
\* every combination of writable and unwritable locations; a registry copy
\* written with the desktop copy failing is reported as a list, like a full
\* success, and not as an error.
C19_ReturnsWritten ==
    (calls # <<>> /\ LastCall.wrote # {}) =>
        (LastCall.ok /\ Returned_files(LastCall) = LastCall.wrote)

\* C19 for the calls that return Ok, where it holds
C19_ReturnsWrittenOnSuccess ==
    (calls # <<>> /\ LastCall.ok) => Returned_files(LastCall) = LastCall.wrote

\* a call returned the error although it had written the registry copy
C19_WitnessPartial ==
    calls # <<>> /\ ~LastCall.ok /\ LastCall.wrote # {}
====
